---- MODULE Spec2Model ----
(***************************************************************************)
(* Model of db/ckgroup/ckconnv2.go: the ClickHouse client's schema         *)
(* introspection (analyzeStructure, getColumnName, extractValues,          *)
(* convertValue, findStructField) and the chunked ingestion loop of        *)
(* BatchInsert driving the driver's PrepareBatch / Append / Send.          *)
(*                                                                         *)
(* Strings that the code inspects (struct tags, field names, column names) *)
(* are sequences of one-character strings, so that strings.Split and       *)
(* strings.ToLower are computed and not assumed.                           *)
(***************************************************************************)
EXTENDS Integers, Sequences, FiniteSets, TLC

VARIABLES
    \* ---- BatchInsert (specification Spec) ----
    batchSize,   \* ClickHouseClient.batchSize
    tableName,   \* argument tableName
    rtype,       \* the struct type the records of this call are built from
    data,        \* argument data: [isSlice, elems]
    pc,          \* position of the call: idle, prepare, append, send, done
    columns,     \* local columns
    i,           \* outer loop index
    j,           \* inner loop index
    batch,       \* local batch: the handle PrepareBatch returned
    events,      \* every call made on the driver, in order
    ret,         \* what the call returned (or that it panicked)
    \* ---- schema functions applied on their own (specification SpecSchema)
    sType,       \* a struct type
    sOp,         \* which function has been applied
    sRes,        \* its result
    \* ---- convertValue applied to a field value (specification SpecConvert)
    cIn,         \* the field value
    cOut,        \* what convertValue returned for it
    \* ---- CreateTable / CreateDistributedTable (specification SpecDDL)
    ddlSpec,     \* the arguments the calls are made with
    store,       \* the databases and tables that exist in the cluster
    execs,       \* every statement handed to conn.Exec, in order
    ddlCalls,    \* the calls made so far, each with what it returned
    \* ---- QueryToStruct (specification SpecQuery)
    qType,       \* the fields of the struct type the destination holds
    qDestKind,   \* what dest is: *[]T, *[]*T, or something else
    qColumns,    \* rows.Columns(): the names of the result columns
    qRows,       \* per row of the result, whether rows.Scan fails on it
    qPre,        \* the destination slice as the caller passed it
    qDest,       \* the destination slice now
    qPc,         \* where the call stands: "idle", "rows", "done"
    qNext,       \* how many rows rows.Next() has delivered and bound
    qLog,        \* every call on the database handle and the rows, in order
    qRet,        \* what the call returned
    \* ---- NewClickHouseClient and the package variable (specification SpecGlobal)
    CKCONN,      \* the package variable, a ClickHouseClient struct
    ctor,        \* per goroutine, where its NewClickHouseClient call stands
    aliasUse,    \* the BatchInsert call made on CKCONN, if one was made
    \* ---- BatchInsert calls running at once on one client (SpecConcurrent)
    cBatchSize,  \* c.batchSize of the client the calls share
    cLen,        \* per call, the number of records in its data
    cPc,         \* per call, where it stands
    cI,          \* per call, its local i
    cJ,          \* per call, its local j
    cBatch,      \* per call, its local batch (a handle, 0 before the first)
    cLog,        \* per call, the driver operations it made and their results
    cRet,        \* per call, what it returned
    handles,     \* the driver's batches: who prepared each, what it was
                 \* given, whether it was sent
    \* ---- LogRotator (specification SpecRotator)
    rot,         \* the rotator: maxSize, maxBackups, currentSize, and
                 \* whether its file is open
    disk,        \* the size of the log file and of each backup, -1 for a
                 \* file that does not exist
    wrote,       \* the Write calls made so far, each with what it returned
    \* ---- SetListString (specification SpecSetList)
    list1,       \* the first argument
    list2,       \* the second argument
    setOut,      \* whether the call was made, and what it returned
    \* ---- SimpleEncrypt (specification SpecEncrypt)
    encKey,      \* s.Key, as its bytes
    encStr,      \* the string to encode, as its bytes
    encOut       \* whether the calls were made, and what they returned

vars == <<batchSize, tableName, rtype, data, pc, columns, i, j, batch,
          events, ret, sType, sOp, sRes, cIn, cOut,
          ddlSpec, store, execs, ddlCalls,
          qType, qDestKind, qColumns, qRows, qPre, qDest, qPc, qNext, qLog,
          qRet, CKCONN, ctor, aliasUse,
          cBatchSize, cLen, cPc, cI, cJ, cBatch, cLog, cRet, handles,
          rot, disk, wrote, list1, list2, setOut, encKey, encStr, encOut>>

biVars == <<batchSize, tableName, rtype, data, pc, columns, i, j, batch,
            events, ret>>

schemaVars == <<sType, sOp, sRes>>

convVars == <<cIn, cOut>>

ddlVars == <<ddlSpec, store, execs, ddlCalls>>

queryVars == <<qType, qDestKind, qColumns, qRows, qPre, qDest, qPc, qNext,
               qLog, qRet>>

globalVars == <<CKCONN, ctor, aliasUse>>

concVars == <<cBatchSize, cLen, cPc, cI, cJ, cBatch, cLog, cRet, handles>>

rotVars == <<rot, disk, wrote>>

setVars == <<list1, list2, setOut>>

encVars == <<encKey, encStr, encOut>>

\* what an action of group g leaves alone: the variables of the other groups
Frame(g) ==
    /\ IF g = "batchInsert" THEN TRUE ELSE UNCHANGED biVars
    /\ IF g = "schema" THEN TRUE ELSE UNCHANGED schemaVars
    /\ IF g = "convert" THEN TRUE ELSE UNCHANGED convVars
    /\ IF g = "ddl" THEN TRUE ELSE UNCHANGED ddlVars
    /\ IF g = "query" THEN TRUE ELSE UNCHANGED queryVars
    /\ IF g = "global" THEN TRUE ELSE UNCHANGED globalVars
    /\ IF g = "concurrent" THEN TRUE ELSE UNCHANGED concVars
    /\ IF g = "rotator" THEN TRUE ELSE UNCHANGED rotVars
    /\ IF g = "setList" THEN TRUE ELSE UNCHANGED setVars
    /\ IF g = "encrypt" THEN TRUE ELSE UNCHANGED encVars

(***************************************************************************)
(* Bounds                                                                  *)
(***************************************************************************)
MaxLen == 3          \* longest data slice
MaxBatch == 2        \* largest configured Config.BatchSize
MaxFields == 3       \* most fields of an enumerated struct type
MaxNested == 2       \* longest nested struct slice
MaxDepth == 2        \* deepest nesting of pointers and slices around a value
MaxCols == 2         \* most declared columns of a table
MaxCalls == 3        \* most DDL calls in one run
MaxRows == 3         \* most rows of a query result
MaxProcs == 2        \* most goroutines calling NewClickHouseClient
MaxSize == 2         \* largest maxSize of a rotator, in bytes
MaxBackups == 1      \* largest maxBackups of a rotator
MaxWrites == 4       \* most Write calls on a rotator
MaxTagged == 2       \* most fields of a struct type with option-only tags

DefaultBatchSize == 1000

(***************************************************************************)
(* Strings                                                                 *)
(***************************************************************************)
Comma == ","
Dash == <<"-">>
EmptyStr == <<>>

Min(a, b) == IF a < b THEN a ELSE b

\* strings.ToLower on the alphabet the field names use
LowerChar(c) ==
    CASE c = "A" -> "a"
      [] c = "B" -> "b"
      [] c = "I" -> "i"
      [] c = "N" -> "n"
      [] c = "S" -> "s"
      [] c = "T" -> "t"
      [] c = "Z" -> "z"
      [] OTHER -> c

ToLower(s) == [n \in 1..Len(s) |-> LowerChar(s[n])]

UpperChars == {"A", "B", "I", "N", "S", "T", "Z"}

\* strings.Split(tag, ",")[0]: the text before the first comma
RECURSIVE SplitFirstFrom(_, _)
SplitFirstFrom(s, n) ==
    IF n > Len(s) \/ s[n] = Comma
    THEN SubSeq(s, 1, n - 1)
    ELSE SplitFirstFrom(s, n + 1)

SplitFirst(s) == SplitFirstFrom(s, 1)

\* reflect.StructField.IsExported: the name starts with an upper-case letter
IsExported(field) == field.name[1] \in UpperChars

\* field.Tag.Get(key): the tag's value, "" when the key is absent
TagGet(field, key) == IF key = "db" THEN field.db ELSE field.json

(***************************************************************************)
(* getColumnName                                                           *)
(***************************************************************************)
getColumnName_JsonFirst(field) ==
    IF TagGet(field, "json") # EmptyStr THEN SplitFirst(TagGet(field, "json"))
    ELSE IF TagGet(field, "db") # EmptyStr THEN SplitFirst(TagGet(field, "db"))
    ELSE ToLower(field.name)

getColumnName(field) ==
    IF TagGet(field, "db") # EmptyStr THEN SplitFirst(TagGet(field, "db"))
    ELSE IF TagGet(field, "json") # EmptyStr THEN SplitFirst(TagGet(field, "json"))
    ELSE ToLower(field.name)

(***************************************************************************)
(* Values as reflection sees them.  A value carries its kind, the kind of  *)
(* its element type (pointers and slices), the fields of its struct type   *)
(* (structs, and pointers to / slices of structs), and its contents.       *)
(*   kind "nil"     the nil interface value: reflect.TypeOf gives nil      *)
(*   kind "invalid" the zero reflect.Value                                 *)
(***************************************************************************)
MkVal(kind, ek, isNil, v, fields, items) ==
    [kind |-> kind, ek |-> ek, isNil |-> isNil, v |-> v,
     fields |-> fields, items |-> items]

NilIface == MkVal("nil", "", TRUE, <<>>, <<>>, <<>>)
InvalidVal == MkVal("invalid", "", TRUE, <<>>, <<>>, <<>>)
IntVal(id) == MkVal("int", "", FALSE, id, <<>>, <<>>)
StructVal(fields, items) == MkVal("struct", "", FALSE, <<>>, fields, items)
PtrTo(val) == MkVal("ptr", val.kind, FALSE, <<>>, val.fields, <<val>>)
NilPtr(ek, fields) == MkVal("ptr", ek, TRUE, <<>>, fields, <<>>)
SliceOf(ek, fields, items) == MkVal("slice", ek, FALSE, <<>>, fields, items)

\* reflect.Value.Elem of a pointer: the zero Value when the pointer is nil
Elem(val) == IF val.isNil THEN InvalidVal ELSE val.items[1]

(***************************************************************************)
(* analyzeStructure                                                        *)
(***************************************************************************)
RECURSIVE analyzeLoop_KeepDash(_, _, _)
analyzeLoop_KeepDash(fields, n, cols) ==
    IF n > Len(fields) THEN cols
    ELSE IF ~IsExported(fields[n]) THEN analyzeLoop_KeepDash(fields, n + 1, cols)
    ELSE analyzeLoop_KeepDash(fields, n + 1,
                              Append(cols, getColumnName(fields[n])))

\* the loop over t.Field(i) of src lines 189-205
RECURSIVE analyzeLoop(_, _, _)
analyzeLoop(fields, n, cols) ==
    IF n > Len(fields) THEN cols
    ELSE IF ~IsExported(fields[n]) THEN analyzeLoop(fields, n + 1, cols)
    ELSE IF getColumnName(fields[n]) = Dash THEN analyzeLoop(fields, n + 1, cols)
    ELSE analyzeLoop(fields, n + 1, Append(cols, getColumnName(fields[n])))

\* the kind of the type the code works on after its pointer dereference
DerefKind(val) == IF val.kind = "ptr" THEN val.ek ELSE val.kind

analyzeStructure(sample) ==
    IF sample.kind = "nil"
    THEN [status |-> "panic", columns |-> <<>>]   \* t.Kind() on a nil Type
    ELSE IF DerefKind(sample) # "struct"
    THEN [status |-> "err", columns |-> <<>>]
    ELSE [status |-> "ok", columns |-> analyzeLoop(sample.fields, 1, <<>>)]

(***************************************************************************)
(* convertValue                                                            *)
(***************************************************************************)
\* what convertValue returns (an interface{}):
\*   "nil"    the nil interface
\*   "raw"    fieldValue.Interface(), the value itself
\*   "empty"  []interface{}{}
\*   "maps"   []map[string]interface{}
OutNil == [kind |-> "nil", raw |-> InvalidVal, maps |-> <<>>]
OutRaw(val) == [kind |-> "raw", raw |-> val, maps |-> <<>>]
OutEmpty == [kind |-> "empty", raw |-> InvalidVal, maps |-> <<>>]
OutMaps(ms) == [kind |-> "maps", raw |-> InvalidVal, maps |-> ms]

\* elemMap[key] = val
MapPut(m, key, val) ==
    [x \in (DOMAIN m) \cup {key} |-> IF x = key THEN val ELSE m[x]]

EmptyMap == [x \in {} |-> OutNil]

RECURSIVE convertValue(_)
RECURSIVE elemMapLoop(_, _, _)
RECURSIVE nestedLoop(_, _, _)

\* the loop of src lines 281-289 without the test for "-"
elemMapLoop_KeepDash(elem, n, m) ==
    IF n > Len(elem.fields) THEN m
    ELSE IF ~IsExported(elem.fields[n]) THEN elemMapLoop(elem, n + 1, m)
    ELSE elemMapLoop(elem, n + 1,
                     MapPut(m, getColumnName(elem.fields[n]),
                            convertValue(elem.items[n])))

\* the loop over elem.Field(j) of src lines 281-289
elemMapLoop(elem, n, m) ==
    IF n > Len(elem.fields) THEN m
    ELSE IF ~IsExported(elem.fields[n]) THEN elemMapLoop(elem, n + 1, m)
    ELSE IF getColumnName(elem.fields[n]) # Dash
    THEN elemMapLoop(elem, n + 1,
                     MapPut(m, getColumnName(elem.fields[n]),
                            convertValue(elem.items[n])))
    ELSE elemMapLoop(elem, n + 1, m)

\* the loop over fieldValue.Index(i) of src lines 276-291
nestedLoop(fieldValue, n, result) ==
    IF n > Len(fieldValue.items) THEN result
    ELSE nestedLoop(fieldValue, n + 1,
                    Append(result, elemMapLoop(fieldValue.items[n], 1, EmptyMap)))

convertValue(fieldValue) ==
    IF fieldValue.kind = "invalid" THEN OutNil
    ELSE IF fieldValue.kind = "slice"
    THEN IF Len(fieldValue.items) = 0 THEN OutEmpty
         ELSE IF fieldValue.ek = "struct"
         THEN OutMaps(nestedLoop(fieldValue, 1, <<>>))
         ELSE OutRaw(fieldValue)
    ELSE IF fieldValue.kind = "ptr"
    THEN IF fieldValue.isNil THEN OutNil ELSE convertValue(Elem(fieldValue))
    ELSE OutRaw(fieldValue)

(***************************************************************************)
(* extractValues                                                           *)
(***************************************************************************)
RECURSIVE extractLoop_KeepDash(_, _, _, _, _)
extractLoop_KeepDash(fields, v, cols, n, values) ==
    IF n > Len(fields) THEN [status |-> "ok", values |-> values]
    ELSE IF v.kind = "invalid"
    THEN [status |-> "panic", values |-> <<>>]
    ELSE IF ~IsExported(fields[n])
    THEN extractLoop_KeepDash(fields, v, cols, n + 1, values)
    ELSE IF Len(values) >= Len(cols) THEN [status |-> "ok", values |-> values]
    ELSE extractLoop_KeepDash(fields, v, cols, n + 1,
                              Append(values, convertValue(v.items[n])))

\* the loop over t.Field(i) of src lines 234-254; v is the dereferenced value
RECURSIVE extractLoop(_, _, _, _, _)
extractLoop(fields, v, cols, n, values) ==
    IF n > Len(fields) THEN [status |-> "ok", values |-> values]
    ELSE IF v.kind = "invalid"
    THEN [status |-> "panic", values |-> <<>>]    \* v.Field(i) on the zero Value
    ELSE IF ~IsExported(fields[n]) THEN extractLoop(fields, v, cols, n + 1, values)
    ELSE IF getColumnName(fields[n]) = Dash
    THEN extractLoop(fields, v, cols, n + 1, values)
    ELSE IF Len(values) >= Len(cols) THEN [status |-> "ok", values |-> values]
    ELSE extractLoop(fields, v, cols, n + 1,
                     Append(values, convertValue(v.items[n])))

extractValues(item, cols) ==
    IF item.kind = "nil"
    THEN [status |-> "panic", values |-> <<>>]    \* t.Kind() on a nil Type
    ELSE IF DerefKind(item) # "struct"
    THEN [status |-> "panic", values |-> <<>>]    \* t.NumField() of a non-struct
    ELSE extractLoop(item.fields,
                     IF item.kind = "ptr" THEN Elem(item) ELSE item,
                     cols, 1, <<>>)

(***************************************************************************)
(* findStructField: the index of the field it returns, 0 for the zero      *)
(* reflect.Value                                                           *)
(***************************************************************************)
RECURSIVE findLoop(_, _, _)
findLoop(fields, columnName, n) ==
    IF n > Len(fields) THEN 0
    ELSE IF ~IsExported(fields[n]) THEN findLoop(fields, columnName, n + 1)
    ELSE IF getColumnName(fields[n]) = columnName THEN n
    ELSE findLoop(fields, columnName, n + 1)

findStructField(structValue, columnName) ==
    findLoop(structValue.fields, columnName, 1)

(***************************************************************************)
(* Struct types and records the ingestion calls are run on                 *)
(***************************************************************************)
MkField(name, db, json, ft) == [name |-> name, db |-> db, json |-> json, ft |-> ft]

\* Id    int64        `db:"k,o" json:"j"`
FieldId == MkField(<<"I", "d">>, <<"k", ",", "o">>, <<"j">>, "int")
\* Sk    int64        `db:"-" json:"s"`
FieldSk == MkField(<<"S", "k">>, Dash, <<"s">>, "int")
\* Nm    *int64       `json:"n,o"`
FieldNm == MkField(<<"N", "m">>, EmptyStr, <<"n", ",", "o">>, "ptrint")
\* pv    int64        `db:"p"`
FieldPv == MkField(<<"p", "v">>, <<"p">>, EmptyStr, "int")
\* Tags  []Nested
FieldTags == MkField(<<"T", "a", "g", "s">>, EmptyStr, EmptyStr, "structs")
\* Ns    []int64      `db:"ns"`
FieldNs == MkField(<<"N", "s">>, <<"n", "s">>, EmptyStr, "ints")
\* A     int64
FieldA == MkField(<<"A">>, EmptyStr, EmptyStr, "int")
\* B     int64        `json:"-"`
FieldB == MkField(<<"B">>, EmptyStr, Dash, "int")
\* Z     int64
FieldZ == MkField(<<"Z">>, EmptyStr, EmptyStr, "int")

NestedType == <<FieldId, FieldB, FieldA>>
OtherType == <<FieldZ>>

RecordTypes ==
    { <<>>,
      <<FieldSk, FieldPv>>,
      <<FieldNs, FieldA>>,
      <<FieldId, FieldSk, FieldNm, FieldPv, FieldTags>> }

\* the value of a field of static type ft; id tells the values apart
FieldValue(ft, id) ==
    CASE ft = "int" -> IntVal(id)
      [] ft = "ptrint" ->
            IF id[1] % 2 = 0 THEN PtrTo(IntVal(id)) ELSE NilPtr("int", <<>>)
      [] ft = "ints" ->
            SliceOf("int", <<>>, [n \in 1..(id[1] % 2) |-> IntVal(id \o <<n>>)])
      [] ft = "structs" ->
            SliceOf("struct", NestedType,
                    [n \in 1..(id[1] % 3) |->
                        StructVal(NestedType,
                                  [g \in 1..Len(NestedType) |->
                                      IntVal(id \o <<n, g>>)])])

\* record number r of struct type T
RecordOf(T, r) ==
    StructVal(T, [f \in 1..Len(T) |-> FieldValue(T[f].ft, <<r, f>>)])

ElemKinds == {"rec", "ptr", "nilptr", "other", "nil", "int", "slice", "ptrint"}

\* element r of the data slice: what a []interface{} (or []T, []*T) can hold
ElemOf(kind, T, r) ==
    CASE kind = "rec" -> RecordOf(T, r)
      [] kind = "ptr" -> PtrTo(RecordOf(T, r))
      [] kind = "nilptr" -> NilPtr("struct", T)
      [] kind = "other" -> RecordOf(OtherType, r)
      [] kind = "nil" -> NilIface
      [] kind = "int" -> IntVal(<<r>>)
      [] kind = "slice" -> SliceOf("int", <<>>, <<IntVal(<<r>>)>>)
      [] kind = "ptrint" -> PtrTo(IntVal(<<r>>))

DataOf(T, ks) ==
    [isSlice |-> TRUE, elems |-> [n \in 1..Len(ks) |-> ElemOf(ks[n], T, n - 1)]]

NotASlice == [isSlice |-> FALSE, elems |-> <<>>]

KindSeqs == UNION {[1..n -> ElemKinds] : n \in 0..MaxLen}

TableNames == {"events"}

\* NewClickHouseClient: batchSize from Config.BatchSize
NewBatchSize(configured) ==
    IF configured <= 0 THEN DefaultBatchSize ELSE configured

(***************************************************************************)
(* BatchInsert                                                             *)
(***************************************************************************)
NoRet == [kind |-> "none", stage |-> "", args |-> <<>>]
RetNil == [kind |-> "nil", stage |-> "", args |-> <<>>]
RetPanic == [kind |-> "panic", stage |-> "", args |-> <<>>]
\* fmt.Errorf: the message names the stage, args are the numbers it formats
RetError(stage, args) == [kind |-> "error", stage |-> stage, args |-> args]

\* a call on the driver; rec is the index of the record an append carries
MkEvent(op, handle, table, cols, rec, values, ok) ==
    [op |-> op, handle |-> handle, table |-> table, columns |-> cols,
     rec |-> rec, values |-> values, ok |-> ok]

dataLen == Len(data.elems)

ChunkEnd(start, size, n) == IF start + size > n THEN n ELSE start + size

LoopCond_WholeChunksOnly(start, size, n) == start + size <= n

\* the condition of the chunk loop, src line 136
LoopCond(start, size, n) == start < n

\* conn.PrepareBatch returns a new batch each time
FreshHandle == Cardinality({n \in 1..Len(events) : events[n].op = "prepare"}) + 1

Finish(r) == /\ ret' = r
             /\ pc' = "done"

InitBatchInsert ==
    /\ \E configured \in 0..MaxBatch : batchSize = NewBatchSize(configured)
    /\ tableName \in TableNames
    /\ rtype \in RecordTypes
    /\ \/ data = NotASlice
       \/ \E ks \in KindSeqs : data = DataOf(rtype, ks)
    /\ pc = "idle"
    /\ columns = <<>>
    /\ i = 0
    /\ j = 0
    /\ batch = 0
    /\ events = <<>>
    /\ ret = NoRet

\* src lines 118-136: the checks on data, analyzeStructure, loop entry
BatchInsertCall ==
    /\ pc = "idle"
    /\ IF ~data.isSlice
       THEN Finish(RetError("slice", <<>>)) /\ UNCHANGED columns
       ELSE IF dataLen = 0
       THEN Finish(RetNil) /\ UNCHANGED columns
       ELSE LET a == analyzeStructure(data.elems[1]) IN
            CASE a.status = "panic" -> Finish(RetPanic) /\ UNCHANGED columns
              [] a.status = "err" ->
                    Finish(RetError("analyze", <<>>)) /\ UNCHANGED columns
              [] a.status = "ok" ->
                    /\ columns' = a.columns
                    /\ pc' = IF LoopCond(0, batchSize, dataLen)
                             THEN "prepare" ELSE "done"
                    /\ ret' = IF LoopCond(0, batchSize, dataLen)
                              THEN ret ELSE RetNil
    /\ UNCHANGED <<batchSize, tableName, rtype, data, i, j, batch, events>>
    /\ Frame("batchInsert")

\* src lines 137-145, keeping the batch of the previous chunk
PrepareChunk_ReuseBatch ==
    /\ pc = "prepare"
    /\ IF batch # 0
       THEN /\ j' = i
            /\ pc' = "append"
            /\ UNCHANGED <<batch, events, ret>>
       ELSE \E ok \in BOOLEAN :
              IF ok
              THEN /\ batch' = FreshHandle
                   /\ events' = Append(events,
                          MkEvent("prepare", FreshHandle, tableName, columns,
                                  -1, <<>>, TRUE))
                   /\ j' = i
                   /\ pc' = "append"
                   /\ UNCHANGED ret
              ELSE /\ events' = Append(events,
                          MkEvent("prepare", 0, tableName, columns, -1, <<>>, FALSE))
                   /\ Finish(RetError("prepare", <<>>))
                   /\ UNCHANGED <<batch, j>>
    /\ UNCHANGED <<batchSize, tableName, rtype, data, columns, i>>
    /\ Frame("batchInsert")

\* src lines 137-145: prepareBatch for the chunk starting at i
PrepareChunk ==
    /\ pc = "prepare"
    /\ \E ok \in BOOLEAN :
          IF ok
          THEN /\ batch' = FreshHandle
               /\ events' = Append(events,
                      MkEvent("prepare", FreshHandle, tableName, columns,
                              -1, <<>>, TRUE))
               /\ j' = i
               /\ pc' = IF i < ChunkEnd(i, batchSize, dataLen)
                        THEN "append" ELSE "send"
               /\ UNCHANGED ret
          ELSE /\ events' = Append(events,
                      MkEvent("prepare", 0, tableName, columns, -1, <<>>, FALSE))
               /\ Finish(RetError("prepare", <<>>))
               /\ UNCHANGED <<batch, j>>
    /\ UNCHANGED <<batchSize, tableName, rtype, data, columns, i>>
    /\ Frame("batchInsert")

\* src lines 148-158, sending what was appended before returning the error
AppendRecord_SendOnError ==
    /\ pc = "append"
    /\ LET x == extractValues(data.elems[j + 1], columns) IN
       IF x.status = "panic"
       THEN Finish(RetPanic) /\ UNCHANGED <<events, j>>
       ELSE \E ok \in BOOLEAN :
              IF ok
              THEN /\ events' = Append(events,
                          MkEvent("append", batch, tableName, columns, j,
                                  x.values, TRUE))
                   /\ j' = j + 1
                   /\ pc' = IF j + 1 < ChunkEnd(i, batchSize, dataLen)
                            THEN "append" ELSE "send"
                   /\ UNCHANGED ret
              ELSE /\ events' = events \o
                          <<MkEvent("append", batch, tableName, columns, j,
                                    x.values, FALSE),
                            MkEvent("send", batch, tableName, columns, -1,
                                    <<>>, TRUE)>>
                   /\ Finish(RetError("append", <<>>))
                   /\ UNCHANGED j
    /\ UNCHANGED <<batchSize, tableName, rtype, data, columns, i, batch>>
    /\ Frame("batchInsert")

\* src lines 148-158: one iteration of the inner loop
AppendRecord ==
    /\ pc = "append"
    /\ LET x == extractValues(data.elems[j + 1], columns) IN
       IF x.status = "panic"
       THEN Finish(RetPanic) /\ UNCHANGED <<events, j>>
       ELSE \E ok \in BOOLEAN :
              /\ events' = Append(events,
                     MkEvent("append", batch, tableName, columns, j,
                             x.values, ok))
              /\ IF ok
                 THEN /\ j' = j + 1
                      /\ pc' = IF j + 1 < ChunkEnd(i, batchSize, dataLen)
                               THEN "append" ELSE "send"
                      /\ UNCHANGED ret
                 ELSE Finish(RetError("append", <<>>)) /\ UNCHANGED j
    /\ UNCHANGED <<batchSize, tableName, rtype, data, columns, i, batch>>
    /\ Frame("batchInsert")

\* src lines 160-164 and the loop's i += c.batchSize
SendBatch ==
    /\ pc = "send"
    /\ \E ok \in BOOLEAN :
          /\ events' = Append(events,
                 MkEvent("send", batch, tableName, columns, -1, <<>>, ok))
          /\ IF ok
             THEN /\ i' = i + batchSize
                  /\ pc' = IF LoopCond(i + batchSize, batchSize, dataLen)
                           THEN "prepare" ELSE "done"
                  /\ ret' = IF LoopCond(i + batchSize, batchSize, dataLen)
                            THEN ret ELSE RetNil
             ELSE /\ Finish(RetError("send",
                        <<i, ChunkEnd(i, batchSize, dataLen) - 1>>))
                  /\ UNCHANGED i
    /\ UNCHANGED <<batchSize, tableName, rtype, data, columns, j, batch>>
    /\ Frame("batchInsert")

IdleSchema ==
    /\ sType = <<>>
    /\ sOp = "none"
    /\ sRes = <<>>

IdleBatchInsert ==
    /\ batchSize = DefaultBatchSize
    /\ tableName = "events"
    /\ rtype = <<>>
    /\ data = NotASlice
    /\ pc = "off"
    /\ columns = <<>>
    /\ i = 0
    /\ j = 0
    /\ batch = 0
    /\ events = <<>>
    /\ ret = NoRet

IdleConvert ==
    /\ cIn = InvalidVal
    /\ cOut = [done |-> FALSE, out |-> OutNil]

IdleDDL ==
    /\ ddlSpec = <<>>
    /\ store = {}
    /\ execs = <<>>
    /\ ddlCalls = <<>>

\* what QueryToStruct returned: cause is the position in qLog of the call
\* whose error is returned as it is, 0 for an error the function makes
QRet(kind, cause) == [kind |-> kind, cause |-> cause]

IdleQuery ==
    /\ qType = <<>>
    /\ qDestKind = "structs"
    /\ qColumns = <<>>
    /\ qRows = <<>>
    /\ qPre = <<>>
    /\ qDest = <<>>
    /\ qPc = "idle"
    /\ qNext = 0
    /\ qLog = <<>>
    /\ qRet = QRet("none", 0)

\* a ClickHouseClient struct; conn and db are 0 for nil, else the number
\* of the construction that opened them
MkClient(conn, db, size) == [conn |-> conn, db |-> db, batchSize |-> size]

\* var CKCONN ClickHouseClient: the zero value
ZeroClient == MkClient(0, 0, 0)

\* a BatchInsert call on CKCONN: the fields the call found in it, the
\* number of records it was given, and how the chunk loop went
MkUse(made, client, n, outcome) ==
    [made |-> made, client |-> client, dataLen |-> n, outcome |-> outcome]

NoUse == MkUse(FALSE, ZeroClient, 0, "")

IdleGlobal ==
    /\ CKCONN = ZeroClient
    /\ ctor = <<>>
    /\ aliasUse = NoUse

IdleConcurrent ==
    /\ cBatchSize = DefaultBatchSize
    /\ cLen = <<>>
    /\ cPc = <<>>
    /\ cI = <<>>
    /\ cJ = <<>>
    /\ cBatch = <<>>
    /\ cLog = <<>>
    /\ cRet = <<>>
    /\ handles = <<>>

IdleRotator ==
    /\ rot = <<>>
    /\ disk = <<>>
    /\ wrote = <<>>

IdleSetList ==
    /\ list1 = <<>>
    /\ list2 = <<>>
    /\ setOut = [done |-> FALSE, obj |-> <<>>]

\* what a call that may not return gives: status "returns" with the
\* result, or "spins" for a call that never returns
Returns(out) == [status |-> "returns", out |-> out]
Spins == [status |-> "spins", out |-> <<>>]

NoEncOut == [done |-> FALSE, base64 |-> Spins, fromBase64 |-> Spins,
             hex |-> Spins, fromHex |-> Spins]

IdleEncrypt ==
    /\ encKey = <<>>
    /\ encStr = <<>>
    /\ encOut = NoEncOut

\* the variables of every group but g hold their initial, unused values
IdleExcept(g) ==
    /\ IF g = "batchInsert" THEN TRUE ELSE IdleBatchInsert
    /\ IF g = "schema" THEN TRUE ELSE IdleSchema
    /\ IF g = "convert" THEN TRUE ELSE IdleConvert
    /\ IF g = "ddl" THEN TRUE ELSE IdleDDL
    /\ IF g = "query" THEN TRUE ELSE IdleQuery
    /\ IF g = "global" THEN TRUE ELSE IdleGlobal
    /\ IF g = "concurrent" THEN TRUE ELSE IdleConcurrent
    /\ IF g = "rotator" THEN TRUE ELSE IdleRotator
    /\ IF g = "setList" THEN TRUE ELSE IdleSetList
    /\ IF g = "encrypt" THEN TRUE ELSE IdleEncrypt

Init == InitBatchInsert /\ IdleExcept("batchInsert")

Next == \/ BatchInsertCall
        \/ PrepareChunk
        \/ AppendRecord
        \/ SendBatch

Spec == Init /\ [][Next]_vars

(***************************************************************************)
(* Reading the driver log                                                  *)
(***************************************************************************)
EventIdx == 1..Len(events)

Ceil(n, b) == (n + b - 1) \div b

\* the records [lo, hi) in order
Range(lo, hi) == [n \in 1..(hi - lo) |-> lo + n - 1]

\* chunk k (k = 0, 1, ...) of n records cut into chunks of b
ChunkOf(k, n, b) == Range(k * b, Min((k + 1) * b, n))

IsAppendTo(e, h) == e.op = "append" /\ e.handle = h /\ e.ok

\* the record indices appended successfully to handle h, in order
AppendedTo(h) ==
    LET evs == SelectSeq(events, LAMBDA e : IsAppendTo(e, h))
    IN [n \in 1..Len(evs) |-> evs[n].rec]

\* the handles sent successfully, in order
SentHandles ==
    LET evs == SelectSeq(events, LAMBDA e : e.op = "send" /\ e.ok)
    IN [n \in 1..Len(evs) |-> evs[n].handle]

\* the chunks sent successfully, in order, each as its record indices
SentChunks == [n \in 1..Len(SentHandles) |-> AppendedTo(SentHandles[n])]

AllOk == \A n \in EventIdx : events[n].ok

IsRecord(val) ==
    \/ val.kind = "struct"
    \/ val.kind = "ptr" /\ val.ek = "struct" /\ ~val.isNil

IsRecordSeq == data.isSlice /\ \A n \in 1..dataLen : IsRecord(data.elems[n])

\* every element is a record of the one struct type rtype (or a pointer to one)
IsHomogeneous ==
    /\ IsRecordSeq
    /\ \A n \in 1..dataLen : data.elems[n].fields = rtype

\* C1: a call on N records with batch size B > 0 in which no driver
\* operation fails returns nil having sent exactly ceil(N/B) chunks, which
\* are the consecutive ranges [0,B), [B,2B), ... covering [0,N) in order,
\* the last of size N mod B (or B); for N = 0 the driver is never called.
C1_ChunkPartition ==
    (pc = "done" /\ IsRecordSeq /\ AllOk) =>
        /\ ret = RetNil
        /\ batchSize > 0
        /\ Len(SentChunks) = Ceil(dataLen, batchSize)
        /\ SentChunks = [n \in 1..Ceil(dataLen, batchSize) |->
                            ChunkOf(n - 1, dataLen, batchSize)]
        /\ \A n \in 1..Len(SentChunks) :
              Len(SentChunks[n]) =
                 IF n < Len(SentChunks) THEN batchSize
                 ELSE IF dataLen % batchSize = 0 THEN batchSize
                 ELSE dataLen % batchSize
        /\ dataLen = 0 => events = <<>>

\* a successful call whose last chunk is shorter than the batch size
C1_Witness ==
    /\ pc = "done"
    /\ ret = RetNil
    /\ IsRecordSeq
    /\ dataLen = 3
    /\ batchSize = 2
    /\ SentChunks = <<<<0, 1>>, <<2>>>>

\* the chunk a call that has left the loop with an error was working on
FailedChunk == i \div batchSize

IsDriverError == ret.kind = "error" /\ ret.stage \in {"prepare", "append", "send"}

\* C2: when the call returns an error raised by prepare, append or send of
\* chunk k, exactly the chunks before k have been sent (and stay sent: the
\* log holds no other kind of operation), chunk k has not been sent
\* successfully, and the driver was never called for a later chunk.
C2_AbortAtFailingChunk ==
    (pc = "done" /\ IsDriverError) =>
        LET k == FailedChunk IN
        /\ SentChunks = [n \in 1..k |-> ChunkOf(n - 1, dataLen, batchSize)]
        /\ SentHandles = [n \in 1..k |-> n]
        /\ \A n \in EventIdx :
              /\ events[n].op \in {"prepare", "append", "send"}
              /\ events[n].op = "append" =>
                    events[n].rec < Min((k + 1) * batchSize, dataLen)
              /\ events[n].handle <= k + 1
        /\ Cardinality({n \in EventIdx : events[n].op = "prepare"}) = k + 1
        /\ ~events[Len(events)].ok

\* the second of three chunks fails to send: the first stays sent, the
\* third is never attempted
C2_Witness ==
    /\ pc = "done"
    /\ ret.kind = "error"
    /\ ret.stage = "send"
    /\ FailedChunk = 1
    /\ dataLen > (FailedChunk + 1) * batchSize
    /\ SentChunks = <<ChunkOf(0, dataLen, batchSize)>>

\* C3: the error returned for an append failure or a send failure names the
\* index range of the failing chunk, [i, min(i+B, N)).
C3_ErrorNamesChunkRange ==
    (pc = "done" /\ ret.kind = "error" /\ ret.stage \in {"append", "send"}) =>
        /\ Len(ret.args) = 2
        /\ ret.args[1] = i
        /\ ret.args[2] \in {ChunkEnd(i, batchSize, dataLen) - 1,
                            ChunkEnd(i, batchSize, dataLen)}

\* the number of prepare calls among the first n events
PreparesUpTo(n) == Cardinality({m \in 1..n : events[m].op = "prepare"})

\* the number of successful appends to handle h among the first n events
AppendsUpTo(h, n) == Cardinality({m \in 1..n : IsAppendTo(events[m], h)})

\* C4: the driver log of one call follows the per-chunk protocol in
\* ascending chunk order: a prepare for the call's table and column list
\* returning a fresh handle, issued first or right after the successful send
\* of the previous chunk; then the chunk's records appended to that handle
\* in input order; then one send of that handle once the whole chunk is
\* appended; handle h only ever receives records of chunk h-1.
C4_ChunkProtocol ==
    \A n \in EventIdx :
        LET e == events[n] IN
        /\ e.op = "prepare" =>
              /\ e.table = tableName
              /\ e.columns = columns
              /\ n = 1 \/ (events[n - 1].op = "send" /\ events[n - 1].ok)
              /\ e.ok => /\ e.handle = PreparesUpTo(n)
                         /\ \A m \in 1..(n - 1) : events[m].handle # e.handle
        /\ e.op = "append" =>
              /\ n > 1
              /\ events[n - 1].ok
              /\ events[n - 1].handle = e.handle
              /\ events[n - 1].op \in {"prepare", "append"}
              /\ e.handle = PreparesUpTo(n)
              /\ e.rec = (e.handle - 1) * batchSize + AppendsUpTo(e.handle, n - 1)
              /\ e.rec < Min(e.handle * batchSize, dataLen)
              /\ e.values = extractValues(data.elems[e.rec + 1], columns).values
        /\ e.op = "send" =>
              /\ n > 1
              /\ events[n - 1].ok
              /\ events[n - 1].op = "append"
              /\ events[n - 1].handle = e.handle
              /\ e.handle = PreparesUpTo(n)
              /\ AppendedTo(e.handle) = ChunkOf(e.handle - 1, dataLen, batchSize)
              /\ \A m \in 1..(n - 1) :
                    ~(events[m].op = "send" /\ events[m].handle = e.handle)

\* two chunks have gone through prepare, append, send, one after the other
C4_Witness ==
    /\ pc = "done"
    /\ Len(events) = 7
    /\ events[4].op = "send" /\ events[4].handle = 1 /\ events[4].ok
    /\ events[5].op = "prepare" /\ events[5].handle = 2
    /\ events[6].op = "append" /\ events[6].rec = 2
    /\ events[7].op = "send" /\ events[7].handle = 2 /\ events[7].ok

\* a field that gets a column: exported and not marked "-"
HasColumn(field) == IsExported(field) /\ getColumnName(field) # Dash

\* the indices of the fields of T that get a column, in declaration order
ColumnFields(T) ==
    SelectSeq([n \in 1..Len(T) |-> n], LAMBDA n : HasColumn(T[n]))

\* the struct value of record r of the data slice
RecordAt(r) ==
    IF data.elems[r + 1].kind = "ptr"
    THEN data.elems[r + 1].items[1] ELSE data.elems[r + 1]

\* C5: for a non-empty homogeneous record sequence the column list is the
\* one derived from the type of element 0, of length C; every prepare of
\* the call carries that same list, and every appended tuple has length C
\* with index c holding the converted value of the field that column c was
\* resolved from.
C5_TupleAlignedWithColumns ==
    (IsHomogeneous /\ dataLen > 0 /\ pc # "idle") =>
        LET idx == ColumnFields(rtype)
            C == Len(idx)
        IN
        /\ columns = [c \in 1..C |-> getColumnName(rtype[idx[c]])]
        /\ columns = analyzeStructure(data.elems[1]).columns
        /\ \A n \in EventIdx :
              /\ events[n].op = "prepare" => events[n].columns = columns
              /\ events[n].op = "append" =>
                    /\ Len(events[n].values) = C
                    /\ \A c \in 1..C :
                          events[n].values[c] =
                             convertValue(RecordAt(events[n].rec).items[idx[c]])

\* a three-column tuple appended in the second chunk of a call whose type
\* also has an excluded and a non-public field
C5_Witness ==
    /\ IsHomogeneous
    /\ Len(rtype) = 5
    /\ \E n \in EventIdx :
          /\ events[n].op = "append"
          /\ events[n].handle = 2
          /\ Len(events[n].values) = 3
          /\ Len(events[n].columns) = 3

\* the type of the value is a struct type or a pointer to a struct type
IsStructTyped(val) == val.kind # "nil" /\ DerefKind(val) = "struct"

\* C9: a call on a non-empty slice whose first element is not a struct or a
\* pointer to one returns the schema error of analyzeStructure, without
\* panicking and without any call on the driver.
C9_NonRecordRejected ==
    (pc # "idle" /\ data.isSlice /\ dataLen > 0
        /\ ~IsStructTyped(data.elems[1])) =>
        /\ pc = "done"
        /\ ret = RetError("analyze", <<>>)
        /\ events = <<>>

(***************************************************************************)
(* The schema functions applied to every struct type of up to MaxFields    *)
(* fields                                                                  *)
(***************************************************************************)
SchemaNames == {<<"A", "b">>, <<"c", "d">>}
SchemaDbTags == {EmptyStr, <<"d", ",", "o">>, Dash}
SchemaJsonTags == {EmptyStr, <<"j">>, Dash}

SchemaFields ==
    {MkField(name, db, json, "int") :
        name \in SchemaNames, db \in SchemaDbTags, json \in SchemaJsonTags}

SchemaTypes == UNION {[1..n -> SchemaFields] : n \in 0..MaxFields}

\* the column names of a query result, rows.Columns()
ResultColumns == <<<<"d">>, <<"j">>, <<"a", "b">>, Dash, <<"c", "d">>, <<"x">>>>

InitSchema ==
    /\ IdleExcept("schema")
    /\ sType \in SchemaTypes
    /\ sOp = "none"
    /\ sRes = <<>>

\* getColumnName on every field of the type
SResolve ==
    /\ sOp = "none"
    /\ sOp' = "resolve"
    /\ sRes' = [n \in 1..Len(sType) |-> getColumnName(sType[n])]
    /\ UNCHANGED sType
    /\ Frame("schema")

\* analyzeStructure on a record of the type, then extractValues on it with
\* the columns found, as BatchInsert does for element 0
SExtract ==
    /\ sOp = "none"
    /\ \E kind \in {"rec", "ptr"} :
          LET item == ElemOf(kind, sType, 0)
              a == analyzeStructure(item)
          IN sRes' = [item |-> item, analyzed |-> a,
                      extracted |-> extractValues(item, a.columns)]
    /\ sOp' = "extract"
    /\ UNCHANGED sType
    /\ Frame("schema")

\* QueryToStruct, src lines 366-374: findStructField for every result column
SFind ==
    /\ sOp = "none"
    /\ sOp' = "find"
    /\ sRes' = [c \in 1..Len(ResultColumns) |->
                   findStructField(RecordOf(sType, 0), ResultColumns[c])]
    /\ UNCHANGED sType
    /\ Frame("schema")

\* convertValue on a field holding a slice of n structs of the type
SConvert ==
    /\ sOp = "none"
    /\ \E n \in 0..MaxNested :
          LET fieldValue ==
                 SliceOf("struct", sType, [r \in 1..n |-> RecordOf(sType, r)])
          IN sRes' = [input |-> fieldValue, out |-> convertValue(fieldValue)]
    /\ sOp' = "convert"
    /\ UNCHANGED sType
    /\ Frame("schema")

NextSchema == \/ SResolve
              \/ SExtract
              \/ SFind
              \/ SConvert

SpecSchema == InitSchema /\ [][NextSchema]_vars

\* the text of a tag before its first comma: the longest comma-free prefix
NamePart(tag) ==
    LET p == CHOOSE p \in 0..Len(tag) :
                /\ \A n \in 1..p : tag[n] # Comma
                /\ p = Len(tag) \/ tag[p + 1] = Comma
    IN [n \in 1..p |-> tag[n]]

\* C6: the resolved column name of a field is its db tag's name when it has
\* a db tag, otherwise its json tag's name when it has a json tag, otherwise
\* its lower-cased field name.
C6_NamePrecedence ==
    sOp = "resolve" =>
        \A n \in 1..Len(sType) :
            sRes[n] = IF sType[n].db # EmptyStr THEN NamePart(sType[n].db)
                      ELSE IF sType[n].json # EmptyStr
                      THEN NamePart(sType[n].json)
                      ELSE ToLower(sType[n].name)

\* a type with one field of each kind: db and json tag, json tag only, no
\* tag, all three resolved at once
C6_Witness ==
    /\ sOp = "resolve"
    /\ Len(sType) = 3
    /\ sType[1].db # EmptyStr /\ sType[1].json # EmptyStr
    /\ sType[2].db = EmptyStr /\ sType[2].json # EmptyStr
    /\ sType[3].db = EmptyStr /\ sType[3].json = EmptyStr
    /\ sRes = <<<<"d">>, <<"j">>, <<"a", "b">>>>

\* the number of fields among the first n that get a column
ColumnsUpTo(T, n) == Cardinality({m \in 1..n : HasColumn(T[m])})

\* C7: fields resolved to "-" and non-public fields get no entry in the
\* column list and no value in the tuple; every other field gets the next
\* free position, the same one in both, so declaration order is kept and
\* no slot is left empty.
C7_ExcludedFieldsTakeNoSlot ==
    sOp = "extract" =>
        LET cols == sRes.analyzed.columns
            vals == sRes.extracted.values
            v == IF sRes.item.kind = "ptr" THEN sRes.item.items[1] ELSE sRes.item
        IN
        /\ sRes.analyzed.status = "ok"
        /\ sRes.extracted.status = "ok"
        /\ Len(cols) = ColumnsUpTo(sType, Len(sType))
        /\ Len(vals) = Len(cols)
        /\ \A n \in 1..Len(sType) :
              LET excluded == \/ sType[n].name[1] \notin UpperChars
                              \/ getColumnName(sType[n]) = Dash
              IN IF excluded
                 THEN ColumnsUpTo(sType, n) = ColumnsUpTo(sType, n - 1)
                 ELSE /\ ColumnsUpTo(sType, n) = ColumnsUpTo(sType, n - 1) + 1
                      /\ cols[ColumnsUpTo(sType, n)] = getColumnName(sType[n])
                      /\ vals[ColumnsUpTo(sType, n)] = OutRaw(v.items[n])

\* a field marked "-" between two fields that keep their columns
C7_Witness ==
    /\ sOp = "extract"
    /\ Len(sType) = 3
    /\ HasColumn(sType[1])
    /\ IsExported(sType[2]) /\ getColumnName(sType[2]) = Dash
    /\ HasColumn(sType[3])
    /\ Len(sRes.analyzed.columns) = 2
    /\ Len(sRes.extracted.values) = 2

\* C8: findStructField binds field n for result column c exactly when field
\* n is in the column list of analyzeStructure under the name c; a field
\* marked "-" is never bound.
C8_FindMatchesAnalyze ==
    sOp = "find" =>
        \A c \in 1..Len(ResultColumns) :
            \A n \in 1..Len(sType) :
                /\ (sRes[c] = n) <=>
                      (HasColumn(sType[n])
                          /\ getColumnName(sType[n]) = ResultColumns[c])
                /\ getColumnName(sType[n]) = Dash => sRes[c] # n

\* C10: a field holding a slice of structs converts to one map per element,
\* in element order, whose keys are the column names analyzeStructure gives
\* for the nested type; an empty slice converts to an empty slice, not nil.
C10_NestedSliceToMaps ==
    sOp = "convert" =>
        LET n == Len(sRes.input.items)
            cols == analyzeStructure(StructVal(sType, <<>>)).columns
        IN
        IF n = 0
        THEN sRes.out = OutEmpty /\ sRes.out.kind # "nil"
        ELSE /\ sRes.out.kind = "maps"
             /\ Len(sRes.out.maps) = n
             /\ \A e \in 1..n :
                   /\ DOMAIN sRes.out.maps[e] = {cols[c] : c \in 1..Len(cols)}
                   /\ \A key \in DOMAIN sRes.out.maps[e] :
                         \E f \in 1..Len(sType) :
                             /\ HasColumn(sType[f])
                             /\ getColumnName(sType[f]) = key
                             /\ sRes.out.maps[e][key] =
                                   OutRaw(sRes.input.items[e].items[f])

\* two nested elements of a type with a field marked "-" and a kept field
C10_Witness ==
    /\ sOp = "convert"
    /\ sRes.out.kind = "maps"
    /\ Len(sRes.out.maps) = 2
    /\ \E f \in 1..Len(sType) : IsExported(sType[f]) /\ getColumnName(sType[f]) = Dash
    /\ \E f \in 1..Len(sType) : HasColumn(sType[f])
    /\ sRes.out.maps[1] # sRes.out.maps[2]

(***************************************************************************)
(* convertValue applied to field values of every shape up to MaxDepth      *)
(***************************************************************************)
\* time.Time: a struct whose fields (wall, ext, loc) are all non-public
TimeType ==
    <<MkField(<<"w", "a", "l", "l">>, EmptyStr, EmptyStr, "int"),
      MkField(<<"e", "x", "t">>, EmptyStr, EmptyStr, "int"),
      MkField(<<"l", "o", "c">>, EmptyStr, EmptyStr, "int")>>

TimeVal(id) == StructVal(TimeType, [n \in 1..3 |-> IntVal(id \o <<n>>)])

\* the values nothing is wrapped around: a number, a time, a record
BaseValues ==
    {IntVal(<<1>>), TimeVal(<<2>>), RecordOf(<<FieldId, FieldSk, FieldNm>>, 1)}

\* one more level: a pointer to v, a nil pointer of v's type, slices of v
WrapOnce(S) ==
    S \cup {PtrTo(v) : v \in S}
      \cup {NilPtr(v.kind, v.fields) : v \in S}
      \cup {SliceOf(v.kind, v.fields, [n \in 1..len |-> v]) :
               v \in S, len \in 0..2}

RECURSIVE ValuesOfDepth(_)
ValuesOfDepth(d) == IF d = 0 THEN BaseValues ELSE WrapOnce(ValuesOfDepth(d - 1))

InitConvert ==
    /\ IdleExcept("convert")
    /\ cIn \in ValuesOfDepth(MaxDepth)
    /\ cOut = [done |-> FALSE, out |-> OutNil]

\* value := c.convertValue(fieldValue), src line 251
CConvert ==
    /\ ~cOut.done
    /\ cOut' = [done |-> TRUE, out |-> convertValue(cIn)]
    /\ UNCHANGED cIn
    /\ Frame("convert")

NextConvert == CConvert

SpecConvert == InitConvert /\ [][NextConvert]_vars

\* a scalar: a number or a time
IsScalar(val) ==
    \/ val.kind = "int"
    \/ val.kind = "struct" /\ val.fields = TimeType

\* a slice whose element type is a scalar type
IsScalarSlice(val) ==
    /\ val.kind = "slice"
    /\ \/ val.ek = "int"
       \/ val.ek = "struct" /\ val.fields = TimeType

\* C11: convertValue returns a value for every field value; a nil pointer
\* gives nil, a non-nil pointer gives the conversion of what it points to,
\* and scalars and slices of scalars are returned as they are.
C11_ConversionTotalAndFaithful ==
    cOut.done =>
        /\ cOut.out.kind \in {"nil", "raw", "empty", "maps"}
        /\ (cIn.kind = "ptr" /\ cIn.isNil) => cOut.out = OutNil
        /\ (cIn.kind = "ptr" /\ ~cIn.isNil) =>
              cOut.out = convertValue(cIn.items[1])
        /\ IsScalar(cIn) => cOut.out = OutRaw(cIn)
        /\ IsScalarSlice(cIn) => cOut.out = OutRaw(cIn)

(***************************************************************************)
(* CreateTable and CreateDistributedTable                                  *)
(***************************************************************************)
ClusterName == "bms_cluster"
CreatedAt == "created_at"
DistributedSuffix == <<"_distributed">>

NoExpr == [fn |-> "", col |-> "", key |-> ""]
NoEngine == [name |-> "", cluster |-> "", db |-> "", table |-> <<>>]

\* a statement, by the parts its text is put together from
MkStmt(verb, db, table, cols, engine, partitionBy, orderBy, sampleBy, settings, comment) ==
    [verb |-> verb, ifNotExists |-> TRUE, db |-> db, table |-> table,
     cluster |-> ClusterName, cols |-> cols, engine |-> engine,
     partitionBy |-> partitionBy, orderBy |-> orderBy, sampleBy |-> sampleBy,
     settings |-> settings, comment |-> comment]

\* "CREATE DATABASE IF NOT EXISTS %s ON CLUSTER bms_cluster"
CreateDatabaseStmt(database) ==
    MkStmt("CREATE DATABASE", database, <<>>, <<>>, NoEngine, NoExpr, NoExpr,
           NoExpr, "", "")

\* the "  %s %s" lines of the column loop, joined by ",\n"
ColumnLines(cols) == [n \in 1..Len(cols) |-> <<cols[n].Name, cols[n].Type>>]

\* the same statement with a plain CREATE TABLE
CreateTableStmt_Plain(database, table, order, desc, cols) ==
    [MkStmt("CREATE TABLE", database, table, ColumnLines(cols),
            [name |-> "ReplicatedMergeTree", cluster |-> "", db |-> database,
             table |-> table],
            [fn |-> "toYYYYMM", col |-> CreatedAt, key |-> ""],
            [fn |-> "intHash64", col |-> CreatedAt, key |-> order],
            [fn |-> "intHash64", col |-> CreatedAt, key |-> ""],
            "index_granularity = 8192", desc)
     EXCEPT !.ifNotExists = FALSE]

\* the statement CreateTable builds in its strings.Builder
CreateTableStmt(database, table, order, desc, cols) ==
    MkStmt("CREATE TABLE", database, table, ColumnLines(cols),
           [name |-> "ReplicatedMergeTree", cluster |-> "", db |-> database,
            table |-> table],
           [fn |-> "toYYYYMM", col |-> CreatedAt, key |-> ""],
           [fn |-> "intHash64", col |-> CreatedAt, key |-> order],
           [fn |-> "intHash64", col |-> CreatedAt, key |-> ""],
           "index_granularity = 8192", desc)

\* the same statement with the engine pointed at the distributed table
CreateDistributedStmt_OverItself(distDB, localTable, desc, cols) ==
    MkStmt("CREATE TABLE", distDB, localTable \o DistributedSuffix,
           ColumnLines(cols),
           [name |-> "Distributed", cluster |-> ClusterName, db |-> distDB,
            table |-> localTable \o DistributedSuffix],
           NoExpr, NoExpr, NoExpr, "", desc)

\* the statement CreateDistributedTable builds in its strings.Builder
CreateDistributedStmt(distDB, localTable, desc, cols) ==
    MkStmt("CREATE TABLE", distDB, localTable \o DistributedSuffix,
           ColumnLines(cols),
           [name |-> "Distributed", cluster |-> ClusterName, db |-> distDB,
            table |-> localTable],
           NoExpr, NoExpr, NoExpr, "", desc)

\* what a statement creates: a database, or a table of a database
ObjectOf(stmt) == [db |-> stmt.db, table |-> stmt.table]

\* conn.Exec against the cluster.  reachable is whether the statement gets
\* to the server and back; the server refuses to create what exists unless
\* the statement says IF NOT EXISTS, and a table whose database is missing
ExecResult(st, stmt, reachable) ==
    IF ~reachable
    THEN [ok |-> FALSE, err |-> "unreachable", store |-> st]
    ELSE IF ObjectOf(stmt) \in st
    THEN IF stmt.ifNotExists
         THEN [ok |-> TRUE, err |-> "", store |-> st]
         ELSE [ok |-> FALSE, err |-> "exists", store |-> st]
    ELSE IF stmt.verb = "CREATE TABLE" /\ [db |-> stmt.db, table |-> <<>>] \notin st
    THEN [ok |-> FALSE, err |-> "no database", store |-> st]
    ELSE [ok |-> TRUE, err |-> "", store |-> st \cup {ObjectOf(stmt)}]

MkExec(stmt, r) == [stmt |-> stmt, ok |-> r.ok, err |-> r.err]

\* the check looking at the first column only
hasCreatedAt_FirstOnly(cols) == Len(cols) > 0 /\ cols[1].Name = CreatedAt

\* the check asking for any column at all
hasCreatedAt_AnyColumn(cols) == Len(cols) > 0

\* the loop of src lines 428-434
hasCreatedAt(cols) == \E n \in 1..Len(cols) : cols[n].Name = CreatedAt

DDLColumns ==
    {[Name |-> "id", Type |-> "UInt64"],
     [Name |-> CreatedAt, Type |-> "DateTime"],
     [Name |-> "ts", Type |-> "DateTime"]}

DDLColumnLists == UNION {[1..n -> DDLColumns] : n \in 0..MaxCols}

DDLTables == {<<"t">>, <<"u", "v">>}

InitDDL ==
    /\ IdleExcept("ddl")
    /\ \E table \in DDLTables, cols \in DDLColumnLists :
          ddlSpec = [database |-> "d", table |-> table, order |-> "id",
                     desc |-> "c", cols |-> cols]
    /\ store = {}
    /\ execs = <<>>
    /\ ddlCalls = <<>>

\* a call and what it returned: nil, the error of a check (cause 0), or the
\* error of the exec at position cause of the log, returned as it is;
\* first is where the log stood when the call began
MkDDLCall(op, kind, err, cause, first) ==
    [op |-> op, kind |-> kind, err |-> err, cause |-> cause, first |-> first]

\* the same with a failed first statement handed to the driver once more
ExecBoth_RetryFirst(op, stmt1, stmt2) ==
    \E reach1, reach2 \in BOOLEAN :
        LET r1 == ExecResult(store, stmt1, reach1)
            r2 == ExecResult(r1.store, stmt2, reach2)
            n == Len(execs)
        IN
        IF ~r1.ok
        THEN /\ execs' = execs \o <<MkExec(stmt1, r1), MkExec(stmt1, r1)>>
             /\ store' = r1.store
             /\ ddlCalls' = Append(ddlCalls,
                    MkDDLCall(op, "error", r1.err, n + 2, n))
        ELSE /\ execs' = execs \o <<MkExec(stmt1, r1), MkExec(stmt2, r2)>>
             /\ store' = r2.store
             /\ ddlCalls' = Append(ddlCalls,
                    IF r2.ok THEN MkDDLCall(op, "nil", "", 0, n)
                    ELSE MkDDLCall(op, "error", r2.err, n + 2, n))

\* the same with the second statement run whatever the first returned
ExecBoth_RunBoth(op, stmt1, stmt2) ==
    \E reach1, reach2 \in BOOLEAN :
        LET r1 == ExecResult(store, stmt1, reach1)
            r2 == ExecResult(r1.store, stmt2, reach2)
            n == Len(execs)
        IN
        /\ execs' = execs \o <<MkExec(stmt1, r1), MkExec(stmt2, r2)>>
        /\ store' = r2.store
        /\ ddlCalls' = Append(ddlCalls,
               IF r2.ok THEN MkDDLCall(op, "nil", "", 0, n)
               ELSE MkDDLCall(op, "error", r2.err, n + 2, n))

\* two statements run one after the other, the second only if the first
\* succeeded: src lines 439-458 and 465-482
ExecBoth(op, stmt1, stmt2) ==
    \E reach1, reach2 \in BOOLEAN :
        LET r1 == ExecResult(store, stmt1, reach1)
            r2 == ExecResult(r1.store, stmt2, reach2)
            n == Len(execs)
        IN
        IF ~r1.ok
        THEN /\ execs' = Append(execs, MkExec(stmt1, r1))
             /\ store' = r1.store
             /\ ddlCalls' = Append(ddlCalls,
                    MkDDLCall(op, "error", r1.err, n + 1, n))
        ELSE /\ execs' = execs \o <<MkExec(stmt1, r1), MkExec(stmt2, r2)>>
             /\ store' = r2.store
             /\ ddlCalls' = Append(ddlCalls,
                    IF r2.ok THEN MkDDLCall(op, "nil", "", 0, n)
                    ELSE MkDDLCall(op, "error", r2.err, n + 2, n))

\* CreateTable(database, table, order, desc, cols)
CreateTable ==
    /\ ddlSpec # <<>>
    /\ Len(ddlCalls) < MaxCalls
    /\ IF ~hasCreatedAt(ddlSpec.cols)
       THEN /\ ddlCalls' = Append(ddlCalls,
                   MkDDLCall("CreateTable", "error", "created_at required",
                             0, Len(execs)))
            /\ UNCHANGED <<store, execs>>
       ELSE ExecBoth("CreateTable",
                CreateDatabaseStmt(ddlSpec.database),
                CreateTableStmt(ddlSpec.database, ddlSpec.table,
                                ddlSpec.order, ddlSpec.desc, ddlSpec.cols))
    /\ UNCHANGED ddlSpec
    /\ Frame("ddl")

\* CreateDistributedTable with the column check of CreateTable
CreateDistributedTable_NeedsCreatedAt ==
    /\ ddlSpec # <<>>
    /\ Len(ddlCalls) < MaxCalls
    /\ IF ~hasCreatedAt(ddlSpec.cols)
       THEN /\ ddlCalls' = Append(ddlCalls,
                   MkDDLCall("CreateDistributedTable", "error",
                             "columns must be provided", 0, Len(execs)))
            /\ UNCHANGED <<store, execs>>
       ELSE ExecBoth("CreateDistributedTable",
                CreateDatabaseStmt(ddlSpec.database),
                CreateDistributedStmt(ddlSpec.database, ddlSpec.table,
                                      ddlSpec.desc, ddlSpec.cols))
    /\ UNCHANGED ddlSpec
    /\ Frame("ddl")

\* CreateDistributedTable(distDB, localTable, desc, cols)
CreateDistributedTable ==
    /\ ddlSpec # <<>>
    /\ Len(ddlCalls) < MaxCalls
    /\ IF Len(ddlSpec.cols) = 0
       THEN /\ ddlCalls' = Append(ddlCalls,
                   MkDDLCall("CreateDistributedTable", "error",
                             "columns must be provided", 0, Len(execs)))
            /\ UNCHANGED <<store, execs>>
       ELSE ExecBoth("CreateDistributedTable",
                CreateDatabaseStmt(ddlSpec.database),
                CreateDistributedStmt(ddlSpec.database, ddlSpec.table,
                                      ddlSpec.desc, ddlSpec.cols))
    /\ UNCHANGED ddlSpec
    /\ Frame("ddl")

NextDDL == \/ CreateTable
           \/ CreateDistributedTable

SpecDDL == InitDDL /\ [][NextDDL]_vars

\* the part of the exec log that call k produced
CallExecs(k) ==
    SubSeq(execs, ddlCalls[k].first + 1,
           IF k < Len(ddlCalls) THEN ddlCalls[k + 1].first ELSE Len(execs))

AllAccepted(k) == \A n \in 1..Len(CallExecs(k)) : CallExecs(k)[n].ok

\* the call failed one of its own checks, not an exec
IsCheckError(call) == call.kind = "error" /\ call.cause = 0

DeclaredNames == {ddlSpec.cols[n].Name : n \in 1..Len(ddlSpec.cols)}

\* C12: CreateTable returns its own error exactly when no declared column
\* is named created_at (an empty column list included), and then hands no
\* statement to the driver; with such a column and every statement
\* accepted it returns nil.
C12_CreatedAtRequired ==
    \A k \in 1..Len(ddlCalls) :
        ddlCalls[k].op = "CreateTable" =>
            /\ IsCheckError(ddlCalls[k]) <=> (CreatedAt \notin DeclaredNames)
            /\ IsCheckError(ddlCalls[k]) => CallExecs(k) = <<>>
            /\ (CreatedAt \in DeclaredNames /\ AllAccepted(k)) =>
                  /\ ddlCalls[k].kind = "nil"
                  /\ Len(CallExecs(k)) = 2

\* CreateTable refused two declared columns, neither of them created_at,
\* and the log is still empty
C12_Witness ==
    /\ Len(ddlCalls) = 1
    /\ ddlCalls[1].op = "CreateTable"
    /\ IsCheckError(ddlCalls[1])
    /\ Len(ddlSpec.cols) = 2
    /\ execs = <<>>

\* C13: every statement executed says IF NOT EXISTS; two calls of the same
\* operation hand the driver the same statements; and a call of an
\* operation that has already succeeded once leaves the set of databases
\* and tables as it is and succeeds again whenever the server is reached.
C13_IdempotentDDL ==
    [][ /\ \A n \in 1..Len(execs') : execs'[n].stmt.ifNotExists
        /\ Len(ddlCalls') = Len(ddlCalls) + 1 =>
              LET new == ddlCalls'[Len(ddlCalls')]
                  newStmts == [n \in 1..(Len(execs') - Len(execs)) |->
                                  execs'[Len(execs) + n].stmt]
              IN
              /\ \A k \in 1..Len(ddlCalls) :
                    (ddlCalls[k].op = new.op /\ Len(CallExecs(k)) = Len(newStmts))
                       => newStmts = [n \in 1..Len(newStmts) |-> CallExecs(k)[n].stmt]
              /\ (\E k \in 1..Len(ddlCalls) :
                       ddlCalls[k].op = new.op /\ ddlCalls[k].kind = "nil") =>
                    /\ store' = store
                    /\ new.kind = "nil" \/ new.err = "unreachable"
      ]_vars

\* CreateTable has succeeded twice and the cluster holds the one database
\* and the one table
C13_Witness ==
    /\ Len(ddlCalls) >= 2
    /\ ddlCalls[1].op = "CreateTable" /\ ddlCalls[1].kind = "nil"
    /\ ddlCalls[2].op = "CreateTable" /\ ddlCalls[2].kind = "nil"
    /\ Cardinality(store) = 2
    /\ Len(execs) = 4

IsReplicated(stmt) == stmt.engine.name = "ReplicatedMergeTree"
IsDistributed(stmt) == stmt.engine.name = "Distributed"

\* C14: a create-table statement of CreateTable lists the declared columns
\* in declared order, partitions by toYYYYMM of the created_at column,
\* orders by (the caller's key, intHash64 of that column) and samples by
\* the same hash; the column these clauses name is a declared column.
C14_ClusteredTableClauses ==
    \A n \in 1..Len(execs) :
        LET stmt == execs[n].stmt IN
        IsReplicated(stmt) =>
            /\ stmt.cols = [c \in 1..Len(ddlSpec.cols) |->
                               <<ddlSpec.cols[c].Name, ddlSpec.cols[c].Type>>]
            /\ stmt.partitionBy.fn = "toYYYYMM"
            /\ stmt.partitionBy.col = "created_at"
            /\ stmt.partitionBy.col \in DeclaredNames
            /\ stmt.orderBy.key = ddlSpec.order
            /\ stmt.orderBy.fn = "intHash64"
            /\ stmt.orderBy.col = stmt.partitionBy.col
            /\ stmt.sampleBy.fn = stmt.orderBy.fn
            /\ stmt.sampleBy.col = stmt.orderBy.col

\* the statement for columns id, created_at with ordering key id
C14_Witness ==
    /\ Len(execs) >= 2
    /\ IsReplicated(execs[2].stmt)
    /\ execs[2].ok
    /\ execs[2].stmt.cols = <<<<"id", "UInt64">>, <<"created_at", "DateTime">>>>
    /\ execs[2].stmt.orderBy = [fn |-> "intHash64", col |-> "created_at", key |-> "id"]

\* C15: the Distributed engine of the statement of CreateDistributedTable
\* names the cluster of its own ON CLUSTER clause, which is the one
\* CreateTable uses, the same database, and the table CreateTable creates;
\* the distributed table is that table's name followed by _distributed, a
\* different name.
C15_DistributedOverLocal ==
    \A n \in 1..Len(execs) :
        LET dist == execs[n].stmt IN
        IsDistributed(dist) =>
            /\ dist.engine.cluster = dist.cluster
            /\ dist.engine.db = dist.db
            /\ dist.engine.table = ddlSpec.table
            /\ dist.table = dist.engine.table \o <<"_distributed">>
            /\ dist.table # dist.engine.table
            /\ \A m \in 1..Len(execs) :
                  LET local == execs[m].stmt IN
                  IsReplicated(local) =>
                      /\ dist.engine.cluster = local.cluster
                      /\ dist.engine.db = local.db
                      /\ dist.engine.table = local.table
                      /\ dist.table # local.table

\* both tables have been created in the cluster
C15_Witness ==
    /\ \E n \in 1..Len(execs) : IsReplicated(execs[n].stmt) /\ execs[n].ok
    /\ \E n \in 1..Len(execs) : IsDistributed(execs[n].stmt) /\ execs[n].ok
    /\ Cardinality(store) = 3

\* C16: CreateDistributedTable returns its own error exactly when the
\* column list is empty, and then hands no statement to the driver; with a
\* non-empty list and every statement accepted it returns nil, whether or
\* not a created_at column is declared.
C16_DistributedNeedsColumns ==
    \A k \in 1..Len(ddlCalls) :
        ddlCalls[k].op = "CreateDistributedTable" =>
            /\ IsCheckError(ddlCalls[k]) <=> (Len(ddlSpec.cols) = 0)
            /\ IsCheckError(ddlCalls[k]) => CallExecs(k) = <<>>
            /\ (Len(ddlSpec.cols) > 0 /\ AllAccepted(k)) =>
                  /\ ddlCalls[k].kind = "nil"
                  /\ Len(CallExecs(k)) = 2

\* CreateDistributedTable succeeded without a created_at column
C16_Witness ==
    /\ Len(ddlCalls) = 1
    /\ ddlCalls[1].op = "CreateDistributedTable"
    /\ ddlCalls[1].kind = "nil"
    /\ CreatedAt \notin DeclaredNames
    /\ Len(execs) = 2

(***************************************************************************)
(* QueryToStruct.  The destination holds records of the struct type qType; *)
(* a record is the sequence of its fields' values, 0 the zero value.  A    *)
(* cell of the result carries a value that tells its row and column.       *)
(***************************************************************************)
QueryTypes == {<<FieldId, FieldSk, FieldNm>>, <<FieldPv, FieldId>>}

QueryColumnNames == {<<"k">>, <<"n">>, <<"p">>, <<"x">>, Dash}

QueryColumnLists == UNION {[1..n -> QueryColumnNames] : n \in 0..MaxCols}

\* "structs" *[]T, "ptrs" *[]*T, "ints" *[]int64, "notptr" []T
DestKinds == {"structs", "ptrs", "ints", "notptr"}

CellValue(row, col) == 10 * row + col

\* a record the caller had put in the slice before the call
OldRecord(fields) == [f \in 1..Len(fields) |-> 7]

QLast(S) == CHOOSE x \in S : \A y \in S : y <= x

MkQEvent(op, row, dest, ok) == [op |-> op, row |-> row, dest |-> dest, ok |-> ok]

InitQuery ==
    /\ IdleExcept("query")
    /\ qType \in QueryTypes
    /\ qDestKind = "structs"
    /\ qColumns \in QueryColumnLists
    /\ qRows \in UNION {[1..n -> BOOLEAN] : n \in 0..MaxRows}
    /\ qPre \in {<<>>, <<OldRecord(qType)>>}
    /\ qDest = qPre
    /\ qPc = "idle"
    /\ qNext = 0
    /\ qLog = <<>>
    /\ qRet = QRet("none", 0)

QFinish(r) == qRet' = r /\ qPc' = "done"

\* src lines 319-347: the checks on dest, c.Query and rows.Columns
QueryToStructCall ==
    /\ qPc = "idle"
    /\ qType # <<>>
    /\ \E kind \in DestKinds, queryOk \in BOOLEAN, columnsOk \in BOOLEAN :
          /\ qDestKind' = kind
          /\ IF kind \in {"notptr", "ints"}
             THEN QFinish(QRet("error", 0)) /\ UNCHANGED qLog
             ELSE IF ~queryOk
             THEN /\ qLog' = <<MkQEvent("query", 0, <<>>, FALSE)>>
                  /\ QFinish(QRet("error", 1))
             ELSE IF ~columnsOk
             THEN /\ qLog' = <<MkQEvent("query", 0, <<>>, TRUE),
                               MkQEvent("columns", 0, <<>>, FALSE)>>
                  /\ QFinish(QRet("error", 2))
             ELSE /\ qLog' = <<MkQEvent("query", 0, <<>>, TRUE),
                               MkQEvent("columns", 0, <<>>, TRUE)>>
                  /\ qPc' = "rows"
                  /\ UNCHANGED qRet
    /\ UNCHANGED <<qType, qColumns, qRows, qPre, qDest, qNext>>
    /\ Frame("query")

\* src lines 366-374: per result column the field rows.Scan writes to, 0
\* for the dummy
scanDest(fields, cols) ==
    [c \in 1..Len(cols) |-> findStructField([fields |-> fields], cols[c])]

\* the new element after a rows.Scan that succeeded: Scan assigns the cells
\* in column order
Scanned(fields, row, dest) ==
    [f \in 1..Len(fields) |->
        LET cs == {c \in 1..Len(dest) : dest[c] = f}
        IN IF cs = {} THEN 0 ELSE CellValue(row, QLast(cs))]

\* one turn of the loop with the element appended whatever Scan returns
ScanRow_AppendFirst ==
    /\ qPc = "rows"
    /\ qNext < Len(qRows)
    /\ LET row == qNext + 1
           dest == scanDest(qType, qColumns)
       IN /\ qLog' = Append(qLog, MkQEvent("scan", row, dest, ~qRows[row]))
          /\ qDest' = Append(qDest, Scanned(qType, row, dest))
          /\ IF qRows[row]
             THEN QFinish(QRet("error", Len(qLog) + 1)) /\ UNCHANGED qNext
             ELSE qNext' = row /\ UNCHANGED <<qPc, qRet>>
    /\ UNCHANGED <<qType, qDestKind, qColumns, qRows, qPre>>
    /\ Frame("query")

\* src lines 350-385: one turn of the loop, rows.Next() having a row
ScanRow ==
    /\ qPc = "rows"
    /\ qNext < Len(qRows)
    /\ LET row == qNext + 1
           dest == scanDest(qType, qColumns)
       IN /\ qLog' = Append(qLog, MkQEvent("scan", row, dest, ~qRows[row]))
          /\ IF qRows[row]
             THEN /\ QFinish(QRet("error", Len(qLog) + 1))
                  /\ UNCHANGED <<qDest, qNext>>
             ELSE /\ qDest' = Append(qDest, Scanned(qType, row, dest))
                  /\ qNext' = row
                  /\ UNCHANGED <<qPc, qRet>>
    /\ UNCHANGED <<qType, qDestKind, qColumns, qRows, qPre>>
    /\ Frame("query")

\* src line 388: rows.Next() has no more rows, return rows.Err()
RowsEnd ==
    /\ qPc = "rows"
    /\ qNext = Len(qRows)
    /\ \E ok \in BOOLEAN :
          /\ qLog' = Append(qLog, MkQEvent("err", 0, <<>>, ok))
          /\ QFinish(IF ok THEN QRet("nil", 0) ELSE QRet("error", Len(qLog) + 1))
    /\ UNCHANGED <<qType, qDestKind, qColumns, qRows, qPre, qDest, qNext>>
    /\ Frame("query")

NextQuery == \/ QueryToStructCall
             \/ ScanRow
             \/ RowsEnd

SpecQuery == InitQuery /\ [][NextQuery]_vars

\* the rows whose Scan returned nil, in the order of the log
RECURSIVE BoundRows(_)
BoundRows(n) ==
    IF n = 0 THEN <<>>
    ELSE IF qLog[n].op = "scan" /\ qLog[n].ok
         THEN Append(BoundRows(n - 1), qLog[n].row)
         ELSE BoundRows(n - 1)

ScannedRows == {qLog[n].row : n \in {m \in 1..Len(qLog) : qLog[m].op = "scan"}}

\* what the destination has gained since the call began
Gained == SubSeq(qDest, Len(qPre) + 1, Len(qDest))

IsScanError == qRet.kind = "error" /\ qRet.cause > 0 /\ qLog[qRet.cause].op = "scan"

\* C17: the destination keeps what it held and gains one record per row
\* whose Scan returned nil, in arrival order, and nothing else; when the
\* call returns the error of the Scan of row k, it has gained exactly the
\* records of rows 1..k-1, no row after k was scanned, and that Scan is the
\* last thing the call did.
C17_PartialResultOnScanError ==
    /\ Len(qDest) >= Len(qPre)
    /\ SubSeq(qDest, 1, Len(qPre)) = qPre
    /\ Gained = [n \in 1..Len(BoundRows(Len(qLog))) |->
                    Scanned(qType, BoundRows(Len(qLog))[n],
                            scanDest(qType, qColumns))]
    /\ IsScanError =>
          LET k == qLog[qRet.cause].row IN
          /\ qRows[k]
          /\ ~qLog[qRet.cause].ok
          /\ BoundRows(Len(qLog)) = [n \in 1..(k - 1) |-> n]
          /\ Len(Gained) = k - 1
          /\ ScannedRows = 1..k
          /\ qRet.cause = Len(qLog)

\* Scan failed on row 3 of 3; two records were added to the one already
\* there, and their k fields tell rows 1 and 2
C17_Witness ==
    /\ IsScanError
    /\ qLog[qRet.cause].row = 3
    /\ qType = <<FieldId, FieldSk, FieldNm>>
    /\ qColumns = <<<<"x">>, <<"k">>>>
    /\ Len(qPre) = 1
    /\ Len(qDest) = 3
    /\ qDest[2][1] = CellValue(1, 2)
    /\ qDest[3][1] = CellValue(2, 2)

\* the columns analyzeStructure resolves for the type
ResolvedNames(fields) ==
    {analyzeLoop(fields, 1, <<>>)[n] : n \in 1..Len(analyzeLoop(fields, 1, <<>>))}

\* the field a resolved column name belongs to: the first exported field
\* that resolves to it
FieldOfColumn(fields, name) ==
    QLast({0} \cup {f \in 1..Len(fields) :
                      /\ IsExported(fields[f])
                      /\ getColumnName(fields[f]) = name
                      /\ name \in ResolvedNames(fields)
                      /\ \A g \in 1..(f - 1) :
                            ~(IsExported(fields[g]) /\ getColumnName(fields[g]) = name)})

\* C18: in every record the call added, a field holds the cell of the
\* result column that carries its resolved column name, and a field whose
\* resolved name no result column carries (or that resolves to no column)
\* holds its zero value; a row with columns that match no field is bound
\* all the same.
C18_MatchedColumnsBound ==
    \A n \in 1..Len(Gained) :
        \A f \in 1..Len(qType) :
            LET cs == {c \in 1..Len(qColumns) :
                          FieldOfColumn(qType, qColumns[c]) = f}
            IN Gained[n][f] = IF cs = {} THEN 0
                              ELSE CellValue(BoundRows(Len(qLog))[n], QLast(cs))

(***************************************************************************)
(* The client as a whole: one run makes BatchInsert, DDL or QueryToStruct  *)
(* calls.                                                                  *)
(***************************************************************************)
InitClient ==
    \/ Init
    \/ InitDDL
    \/ InitQuery

NextClient ==
    \/ BatchInsertCall
    \/ PrepareChunk
    \/ AppendRecord
    \/ SendBatch
    \/ CreateTable
    \/ CreateDistributedTable
    \/ QueryToStructCall
    \/ ScanRow
    \/ RowsEnd

SpecClient == InitClient /\ [][NextClient]_vars

\* BatchInsert: no batch is prepared again before the one prepared last was
\* sent, no record is appended twice, no batch is sent twice
BatchInsertOnce ==
    /\ \A p, q \in EventIdx :
          (p < q /\ events[p].op = "prepare" /\ events[q].op = "prepare") =>
              \E m \in (p + 1)..(q - 1) :
                  /\ events[m].op = "send"
                  /\ events[m].ok
                  /\ events[m].handle = events[p].handle
    /\ \A p, q \in EventIdx :
          (p < q /\ events[p].op = events[q].op) =>
              /\ events[p].op = "append" => events[p].rec # events[q].rec
              /\ events[p].op = "send" => events[p].handle # events[q].handle

\* BatchInsert: a failed driver call is the last one, and the error
\* returned is the one made from it (fmt.Errorf with %w around its error)
BatchInsertFirstFailure ==
    \A n \in EventIdx :
        ~events[n].ok =>
            /\ n = Len(events)
            /\ pc = "done"
            /\ ret.kind = "error"
            /\ ret.stage = events[n].op

\* the DDL calls: a call hands a statement to the driver once, and a
\* refused statement is the call's last and its error is what is returned
DDLOnceAndFirstFailure ==
    \A k \in 1..Len(ddlCalls) :
        /\ \A p, q \in 1..Len(CallExecs(k)) :
              p < q => CallExecs(k)[p].stmt # CallExecs(k)[q].stmt
        /\ \A p \in 1..Len(CallExecs(k)) :
              ~CallExecs(k)[p].ok =>
                  /\ p = Len(CallExecs(k))
                  /\ ddlCalls[k].kind = "error"
                  /\ ddlCalls[k].cause = ddlCalls[k].first + p
                  /\ ddlCalls[k].err = CallExecs(k)[p].err

\* QueryToStruct: the query is run once, the columns are asked for once,
\* a row is scanned once, and a failed call is the last and its error is
\* what is returned
QueryOnceAndFirstFailure ==
    /\ \A p, q \in 1..Len(qLog) :
          (p < q /\ qLog[p].op = qLog[q].op) =>
              /\ qLog[p].op = "scan"
              /\ qLog[p].row # qLog[q].row
    /\ \A n \in 1..Len(qLog) :
          ~qLog[n].ok =>
              /\ n = Len(qLog)
              /\ qPc = "done"
              /\ qRet = QRet("error", n)

\* C19: within one call no driver operation (the prepare of a chunk, the
\* append of a record, the send of a chunk, the exec of a statement, the
\* scan of a row) is made twice, and the first one that fails is the last
\* thing the call does: the call returns, and what it returns carries that
\* operation's error.
C19_NoRetry ==
    /\ BatchInsertOnce
    /\ BatchInsertFirstFailure
    /\ DDLOnceAndFirstFailure
    /\ QueryOnceAndFirstFailure

\* BatchInsert sent a first chunk and returned the error of the send of
\* the second
C19_Witness ==
    /\ pc = "done"
    /\ ret.kind = "error"
    /\ ret.stage = "send"
    /\ Len(SentHandles) = 1
    /\ ~events[Len(events)].ok
    /\ events[Len(events)].op = "send"
    /\ events[Len(events)].handle = 2

(***************************************************************************)
(* NewClickHouseClient and CKCONN.  Goroutines call the constructor at the *)
(* same time.  The assignment CKCONN = ckconn (src line 96) copies a       *)
(* struct of several words under no lock: the writes of two goroutines to  *)
(* the fields of CKCONN can interleave, so the copy is one step per field. *)
(***************************************************************************)
Procs == 1..MaxProcs

MkCtor(pc0, configured, client, returned) ==
    [pc |-> pc0, configured |-> configured, client |-> client,
     returned |-> returned]

InitGlobal ==
    /\ IdleExcept("global")
    /\ CKCONN = ZeroClient
    /\ ctor \in [Procs -> {MkCtor("start", configured, ZeroClient, "none") :
                              configured \in {0, MaxBatch}}]
    /\ aliasUse = NoUse

\* src lines 40-95: clickhouse.Open, conn.Ping, clickhouse.OpenDB, the batch
\* size, the struct literal; a failed Open or Ping returns nil and an error
Connect(p) ==
    /\ ctor[p].pc = "start"
    /\ \E ok \in BOOLEAN :
          ctor' = [ctor EXCEPT ![p] =
                      IF ok
                      THEN MkCtor("conn", @.configured,
                                  MkClient(p, p, NewBatchSize(@.configured)),
                                  "none")
                      ELSE MkCtor("done", @.configured, ZeroClient, "error")]
    /\ UNCHANGED <<CKCONN, aliasUse>>
    /\ Frame("global")

\* the field the construction writes next, and the step after it
NextStep(at) ==
    CASE at = "conn" -> "db"
      [] at = "db" -> "batchSize"
      [] at = "batchSize" -> "return"

\* src line 96, one field of the copy
WriteField(p) ==
    /\ ctor[p].pc \in {"conn", "db", "batchSize"}
    /\ CKCONN' = [CKCONN EXCEPT ![ctor[p].pc] = ctor[p].client[ctor[p].pc]]
    /\ ctor' = [ctor EXCEPT ![p].pc = NextStep(@)]
    /\ UNCHANGED aliasUse
    /\ Frame("global")

\* src line 98: return &ckconn, nil
Return(p) ==
    /\ ctor[p].pc = "return"
    /\ ctor' = [ctor EXCEPT ![p].pc = "done", ![p].returned = "client"]
    /\ UNCHANGED <<CKCONN, aliasUse>>
    /\ Frame("global")

\* the chunk loop of BatchInsert, src lines 136-164, on n records with the
\* client c and a driver that refuses nothing:
\*   "nil"    no record, the call returns before the loop (lines 124-126)
\*   "panic"  c.conn is nil, PrepareBatch is called on it (line 172)
\*   "spins"  i += c.batchSize leaves i where it was, the loop never ends
\*   "sent"   the start index grows until it reaches n
ChunkLoop(c, n) ==
    IF n = 0 THEN "nil"
    ELSE IF c.conn = 0 THEN "panic"
    ELSE IF 0 + c.batchSize <= 0 THEN "spins"
    ELSE "sent"

\* CKCONN.BatchInsert(tableName, data) with n records, from any goroutine
\* at any time
AliasBatchInsert ==
    /\ ~aliasUse.made
    /\ \E n \in 0..MaxLen :
          aliasUse' = MkUse(TRUE, CKCONN, n, ChunkLoop(CKCONN, n))
    /\ UNCHANGED <<CKCONN, ctor>>
    /\ Frame("global")

NextGlobal ==
    \/ \E p \in Procs : Connect(p)
    \/ \E p \in Procs : WriteField(p)
    \/ \E p \in Procs : Return(p)
    \/ AliasBatchInsert

SpecGlobal == InitGlobal /\ [][NextGlobal]_vars

Succeeded == {p \in Procs : ctor[p].returned = "client"}

Quiescent == \A p \in Procs : ctor[p].pc = "done"

\* C20: CKCONN holds its zero value until a construction that succeeds
\* writes it; a construction that failed has written nothing; and once
\* every construction has returned, CKCONN equals, field for field, the
\* client one of the successful constructions returned.
C20_AliasIsOneClient ==
    /\ (\A p \in Procs : ctor[p].pc \in {"start", "conn"} \/ ctor[p].returned = "error")
          => CKCONN = ZeroClient
    /\ \A p \in Procs : ctor[p].returned = "error" => CKCONN.conn # p /\ CKCONN.db # p
    /\ (Quiescent /\ Succeeded # {}) =>
          \E p \in Succeeded : CKCONN = ctor[p].client

\* the batch sizes NewClickHouseClient gives the clients of this run
ConstructedSizes == {NewBatchSize(ctor[p].configured) : p \in Procs}

\* C21: a BatchInsert call on CKCONN finds a positive batch size in it, the
\* configured one or 1000, so that the start index of the chunk loop grows
\* and the call ends.
C21_BatchSizePositive ==
    aliasUse.made =>
        /\ aliasUse.client.batchSize > 0
        /\ aliasUse.client.batchSize \in ConstructedSizes
        /\ aliasUse.outcome \in {"nil", "sent"}

(***************************************************************************)
(* BatchInsert calls made at the same time on one client.  i, j, end,      *)
(* batch and columns are locals of the call; the calls share c.batchSize,  *)
(* which they read, and the driver, which gives every PrepareBatch a batch *)
(* of its own.  Record n of call p is <<p, n>>; the records are structs of *)
(* one type, so analyzeStructure and extractValues succeed.                *)
(***************************************************************************)
Callers == {1, 2}

MkOp(op, handle, rec, ok) == [op |-> op, handle |-> handle, rec |-> rec, ok |-> ok]

MkHandle(owner, recs, sent) == [owner |-> owner, recs |-> recs, sent |-> sent]

InitConcurrent ==
    /\ IdleExcept("concurrent")
    /\ \E configured \in 0..MaxBatch : cBatchSize = NewBatchSize(configured)
    /\ cLen \in [Callers -> 0..MaxLen]
    /\ cPc = [p \in Callers |-> "idle"]
    /\ cI = [p \in Callers |-> 0]
    /\ cJ = [p \in Callers |-> 0]
    /\ cBatch = [p \in Callers |-> 0]
    /\ cLog = [p \in Callers |-> <<>>]
    /\ cRet = [p \in Callers |-> NoRet]
    /\ handles = <<>>

CFinish(p, r) == /\ cRet' = [cRet EXCEPT ![p] = r]
                 /\ cPc' = [cPc EXCEPT ![p] = "done"]

\* src lines 118-133 of call p
CCall(p) ==
    /\ cPc[p] = "idle"
    /\ IF cLen[p] = 0
       THEN CFinish(p, RetNil)
       ELSE cPc' = [cPc EXCEPT ![p] = "prepare"] /\ UNCHANGED cRet
    /\ UNCHANGED <<cBatchSize, cLen, cI, cJ, cBatch, cLog, handles>>
    /\ Frame("concurrent")

\* src lines 137-145 of call p
CPrepare(p) ==
    /\ cPc[p] = "prepare"
    /\ \E ok \in BOOLEAN :
          IF ok
          THEN /\ handles' = Append(handles, MkHandle(p, <<>>, FALSE))
               /\ cBatch' = [cBatch EXCEPT ![p] = Len(handles) + 1]
               /\ cLog' = [cLog EXCEPT ![p] =
                              Append(@, MkOp("prepare", Len(handles) + 1, -1, TRUE))]
               /\ cJ' = [cJ EXCEPT ![p] = cI[p]]
               /\ cPc' = [cPc EXCEPT ![p] = "append"]
               /\ UNCHANGED cRet
          ELSE /\ cLog' = [cLog EXCEPT ![p] =
                              Append(@, MkOp("prepare", 0, -1, FALSE))]
               /\ CFinish(p, RetError("prepare", <<>>))
               /\ UNCHANGED <<handles, cBatch, cJ>>
    /\ UNCHANGED <<cBatchSize, cLen, cI>>
    /\ Frame("concurrent")

\* the batch the last PrepareBatch of any call returned
BatchOf_LastPrepared(p) == Len(handles)

\* the batch call p appends to and sends: its local variable batch
BatchOf(p) == cBatch[p]

\* src lines 148-158 of call p: one iteration of the inner loop
CAppend(p) ==
    /\ cPc[p] = "append"
    /\ \E ok \in BOOLEAN :
          /\ cLog' = [cLog EXCEPT ![p] =
                         Append(@, MkOp("append", BatchOf(p), cJ[p], ok))]
          /\ IF ok
             THEN /\ handles' = [handles EXCEPT ![BatchOf(p)].recs =
                                    Append(@, <<p, cJ[p]>>)]
                  /\ cJ' = [cJ EXCEPT ![p] = @ + 1]
                  /\ cPc' = [cPc EXCEPT ![p] =
                                IF cJ[p] + 1 < ChunkEnd(cI[p], cBatchSize, cLen[p])
                                THEN "append" ELSE "send"]
                  /\ UNCHANGED cRet
             ELSE /\ CFinish(p, RetError("append", <<>>))
                  /\ UNCHANGED <<handles, cJ>>
    /\ UNCHANGED <<cBatchSize, cLen, cI, cBatch>>
    /\ Frame("concurrent")

\* src lines 161-164 of call p, and the step and test of the outer loop
CSend(p) ==
    /\ cPc[p] = "send"
    /\ \E ok \in BOOLEAN :
          /\ cLog' = [cLog EXCEPT ![p] =
                         Append(@, MkOp("send", BatchOf(p), -1, ok))]
          /\ IF ok
             THEN /\ handles' = [handles EXCEPT ![BatchOf(p)].sent = TRUE]
                  /\ cI' = [cI EXCEPT ![p] = @ + cBatchSize]
                  /\ IF cI[p] + cBatchSize < cLen[p]
                     THEN cPc' = [cPc EXCEPT ![p] = "prepare"] /\ UNCHANGED cRet
                     ELSE CFinish(p, RetNil)
             ELSE /\ CFinish(p, RetError("send",
                        <<cI[p], ChunkEnd(cI[p], cBatchSize, cLen[p]) - 1>>))
                  /\ UNCHANGED <<handles, cI>>
    /\ UNCHANGED <<cBatchSize, cLen, cJ, cBatch>>
    /\ Frame("concurrent")

NextConcurrent ==
    \/ \E p \in Callers : CCall(p)
    \/ \E p \in Callers : CPrepare(p)
    \/ \E p \in Callers : CAppend(p)
    \/ \E p \in Callers : CSend(p)

SpecConcurrent == InitConcurrent /\ [][NextConcurrent]_vars

\* BatchInsert run by itself on n records with batch size b against a
\* driver that answers its calls with oks, one after the other: src lines
\* 123-166 as a loop over the state st of the call.  It stops when the call
\* returns or the answers run out.
SoloStart == [stage |-> "start", i |-> 0, j |-> 0, k |-> 1, cur |-> <<>>,
              sent |-> <<>>, ret |-> NoRet]

RECURSIVE SoloRun(_, _, _, _)
SoloRun(n, b, oks, st) ==
    IF st.stage = "done" THEN st
    ELSE IF st.stage = "start"
    THEN SoloRun(n, b, oks,
             IF n = 0 THEN [st EXCEPT !.stage = "done", !.ret = RetNil]
             ELSE [st EXCEPT !.stage = "prepare"])
    ELSE IF st.k > Len(oks) THEN st
    ELSE IF st.stage = "prepare"
    THEN SoloRun(n, b, oks,
             IF oks[st.k]
             THEN [st EXCEPT !.stage = "append", !.j = st.i, !.cur = <<>>,
                             !.k = @ + 1]
             ELSE [st EXCEPT !.stage = "done", !.k = @ + 1,
                             !.ret = RetError("prepare", <<>>)])
    ELSE IF st.stage = "append"
    THEN SoloRun(n, b, oks,
             IF oks[st.k]
             THEN [st EXCEPT !.stage = IF st.j + 1 < ChunkEnd(st.i, b, n)
                                       THEN "append" ELSE "send",
                             !.j = @ + 1, !.cur = Append(@, st.j), !.k = @ + 1]
             ELSE [st EXCEPT !.stage = "done", !.k = @ + 1,
                             !.ret = RetError("append", <<>>)])
    ELSE SoloRun(n, b, oks,
             IF oks[st.k]
             THEN [st EXCEPT !.stage = IF st.i + b < n THEN "prepare" ELSE "done",
                             !.ret = IF st.i + b < n THEN NoRet ELSE RetNil,
                             !.i = @ + b, !.sent = Append(@, st.cur), !.k = @ + 1]
             ELSE [st EXCEPT !.stage = "done", !.k = @ + 1,
                             !.ret = RetError("send",
                                        <<st.i, ChunkEnd(st.i, b, n) - 1>>)])

\* the answers the driver gave call p, in order
AnswersTo(p) == [n \in 1..Len(cLog[p]) |-> cLog[p][n].ok]

\* the batches call p prepared and sent, in order, each as what it holds
SentBy(p) ==
    LET hs == SelectSeq(handles, LAMBDA h : h.owner = p /\ h.sent)
    IN [n \in 1..Len(hs) |-> hs[n].recs]

\* the record indices ch as records of call p
RecordsOf(p, ch) == [n \in 1..Len(ch) |-> <<p, ch[n]>>]

\* C22: under every interleaving of the calls, a batch holds only records
\* of the call that prepared it; the batches a call has sent are the
\* chunks the call would have sent by itself with the same answers from
\* the driver, in the same order; and what the call returns is what it
\* would have returned by itself.
C22_CallsDoNotInterfere ==
    \A p \in Callers :
        LET solo == SoloRun(cLen[p], cBatchSize, AnswersTo(p), SoloStart) IN
        /\ \A h \in 1..Len(handles) :
              handles[h].owner = p =>
                  \A n \in 1..Len(handles[h].recs) : handles[h].recs[n][1] = p
        /\ solo.k = Len(cLog[p]) + 1
        /\ SentBy(p) = [n \in 1..Len(solo.sent) |-> RecordsOf(p, solo.sent[n])]
        /\ cPc[p] = "done" => cRet[p] = solo.ret

\* two calls of three records each in chunks of two, their batches
\* prepared in turn; the first returned nil, the second the error of the
\* send of its second chunk
C22_Witness ==
    /\ cBatchSize = 2
    /\ cLen = [p \in Callers |-> 3]
    /\ [h \in 1..Len(handles) |-> handles[h].owner] = <<1, 2, 1, 2>>
    /\ cRet[1] = RetNil
    /\ cRet[2] = RetError("send", <<2, 2>>)
    /\ SentBy(1) = <<<<<<1, 0>>, <<1, 1>>>>, <<<<1, 2>>>>>>
    /\ SentBy(2) = <<<<<<2, 0>>, <<2, 1>>>>>>

(***************************************************************************)
(* LogRotator (src/logger/rotator.go).  The disk holds the log file and    *)
(* its backups filename.1, filename.2, ...; only sizes matter.  Close,     *)
(* the rename of the log file and the reopening can fail.                  *)
(***************************************************************************)
Absent == -1

\* the backups the disk can hold: filename.1 .. filename.(maxBackups + 1)
Slots(maxBackups) == 1..(maxBackups + 1)

\* backupFilename(num), as the number after the dot
backupFilename(num) == IF num = 0 THEN 1 ELSE num + 1

MkRotator(maxSize, maxBackups, currentSize, open) ==
    [maxSize |-> maxSize, maxBackups |-> maxBackups,
     currentSize |-> currentSize, open |-> open]

MkDisk(cur, backups) == [cur |-> cur, backups |-> backups]

\* NewRotator(filename, maxSize, maxBackups) has succeeded: maxSize > 0,
\* maxBackups >= 0, and openFile has opened or created the log file
InitRotator ==
    /\ IdleExcept("rotator")
    /\ \E maxSize \in 1..MaxSize, maxBackups \in 0..MaxBackups,
          size \in 0..(MaxSize + 1) :
          /\ rot = MkRotator(maxSize, maxBackups, size, TRUE)
          /\ disk = MkDisk(size, [n \in Slots(maxBackups) |-> Absent])
    /\ wrote = <<>>

\* the loop of src lines 101-109, from i down to 1: filename.i, if it
\* exists, is renamed to filename.(i+1)
RECURSIVE shiftBackups(_, _)
shiftBackups(backups, n) ==
    IF n <= 0 THEN backups
    ELSE LET oldPath == backupFilename(n - 1)
             newPath == backupFilename(n)
         IN shiftBackups(
                IF backups[oldPath] # Absent
                THEN [backups EXCEPT ![newPath] = backups[oldPath],
                                     ![oldPath] = Absent]
                ELSE backups,
                n - 1)

\* rotate(), src lines 94-119; st is the rotator and the disk
rotate(st, closeOk, renameOk, openOk) ==
    IF ~st.r.open \/ ~closeOk
    THEN [r |-> [st.r EXCEPT !.open = FALSE], d |-> st.d, err |-> "close"]
    ELSE LET closed == [st.r EXCEPT !.open = FALSE]
             shifted == shiftBackups(st.d.backups, st.r.maxBackups)
         IN IF st.d.cur = Absent \/ ~renameOk
            THEN [r |-> closed, d |-> MkDisk(st.d.cur, shifted), err |-> "rename"]
            ELSE LET renamed == MkDisk(Absent,
                                    [shifted EXCEPT ![backupFilename(0)] = st.d.cur])
                 IN IF ~openOk
                    THEN [r |-> closed, d |-> renamed, err |-> "open"]
                    ELSE [r |-> [closed EXCEPT !.open = TRUE, !.currentSize = 0],
                          d |-> MkDisk(0, renamed.backups), err |-> ""]

MkWrite(len, n, err) == [len |-> len, n |-> n, err |-> err]

\* src line 76
NeedsRotate(r, len) == r.currentSize + len > r.maxSize

\* Write(p) with len(p) = len, src lines 71-85
Write ==
    /\ rot # <<>>
    /\ Len(wrote) < MaxWrites
    /\ \E len \in 0..(rot.maxSize + 1), closeOk \in BOOLEAN,
          renameOk \in BOOLEAN, openOk \in BOOLEAN :
          LET st == [r |-> rot, d |-> disk, err |-> ""]
              rotated == IF NeedsRotate(rot, len)
                         THEN rotate(st, closeOk, renameOk, openOk)
                         ELSE st
          IN IF rotated.err # ""
             THEN /\ rot' = rotated.r
                  /\ disk' = rotated.d
                  /\ wrote' = Append(wrote, MkWrite(len, 0, rotated.err))
             ELSE IF ~rotated.r.open
             THEN \* r.file.Write on a closed file: 0, os.ErrClosed
                  /\ rot' = rotated.r
                  /\ disk' = rotated.d
                  /\ wrote' = Append(wrote, MkWrite(len, 0, "write"))
             ELSE /\ rot' = [rotated.r EXCEPT !.currentSize = @ + len]
                  /\ disk' = [rotated.d EXCEPT !.cur = @ + len]
                  /\ wrote' = Append(wrote, MkWrite(len, len, ""))
    /\ Frame("rotator")

NextRotator == Write

SpecRotator == InitRotator /\ [][NextRotator]_vars

Backups == {n \in DOMAIN disk.backups : disk.backups[n] # Absent}

\* C23: the number of backup files never exceeds maxBackups.
C23_BackupsWithinMax ==
    rot # <<>> => Cardinality(Backups) <= rot.maxBackups

\* C24: once a Write has been made, the log file is never larger than
\* maxSize.
C24_FileWithinMaxSize ==
    (rot # <<>> /\ wrote # <<>>) => disk.cur <= rot.maxSize

\* C27: after a Write that returned the error of a failed rotation (the
\* Close or the rename of the log file), the rotator holds an open file
\* and currentSize is the size of the log file.
C27_RotatorUsableAfterFailedRotation ==
    (wrote # <<>> /\ wrote[Len(wrote)].err \in {"close", "rename"}) =>
        /\ rot.open
        /\ disk.cur # Absent
        /\ rot.currentSize = disk.cur

(***************************************************************************)
(* SetListString and RemoveRepeatedElement (src/unnamed/part_000).  Go     *)
(* slices are indexed from 0, sequences from 1: element n of the code is   *)
(* element n + 1 here.                                                     *)
(***************************************************************************)
SetStrings == {"a", "b", "c"}

StringLists == UNION {[1..n -> SetStrings] : n \in 0..MaxLen}

\* the loop of src lines 814-826: arr[i] is kept unless an equal element
\* follows it
RECURSIVE removeLoop(_, _, _)
removeLoop(arr, at, newArr) ==
    IF at >= Len(arr) THEN newArr
    ELSE LET repeat == \E nx \in (at + 1)..(Len(arr) - 1) : arr[at + 1] = arr[nx + 1]
         IN removeLoop(arr, at + 1,
                       IF ~repeat THEN Append(newArr, arr[at + 1]) ELSE newArr)

RemoveRepeatedElement(arr) == removeLoop(arr, 0, <<>>)

\* append(obj[:at], obj[at+1:]...)
RemoveAt(obj, at) == SubSeq(obj, 1, at) \o SubSeq(obj, at + 2, Len(obj))

\* the loop of src lines 796-808 over the de-duplicated lists l1 and l2,
\* at being the i of the code
RECURSIVE subtractLoop(_, _, _, _)
subtractLoop(l1, l2, at, obj) ==
    IF at >= Len(l1) THEN obj
    ELSE IF \E nx \in 0..(Len(l2) - 1) : l2[nx + 1] = l1[at + 1]
    THEN subtractLoop(l1, l2, at + 1,
             IF at < Len(obj) THEN RemoveAt(obj, at)
             ELSE SubSeq(obj, 1, Len(obj) - 1))
    ELSE subtractLoop(l1, l2, at + 1, obj)

SetListString(l1, l2) ==
    subtractLoop(RemoveRepeatedElement(l1), RemoveRepeatedElement(l2), 0,
                 RemoveRepeatedElement(l1))

InitSetList ==
    /\ IdleExcept("setList")
    /\ list1 \in StringLists
    /\ list2 \in StringLists
    /\ setOut = [done |-> FALSE, obj |-> <<>>]

CallSetListString ==
    /\ ~setOut.done
    /\ setOut' = [done |-> TRUE, obj |-> SetListString(list1, list2)]
    /\ UNCHANGED <<list1, list2>>
    /\ Frame("setList")

NextSetList == CallSetListString

SpecSetList == InitSetList /\ [][NextSetList]_vars

Elems(seq) == {seq[n] : n \in 1..Len(seq)}

\* C25: SetListString(list1, list2) returns the elements of list1 that do
\* not occur in list2, and each of them once.
C25_SetDifference ==
    setOut.done =>
        /\ Elems(setOut.obj) = Elems(list1) \ Elems(list2)
        /\ \A m, n \in 1..Len(setOut.obj) :
              m # n => setOut.obj[m] # setOut.obj[n]

\* C26: a DDL call hands the driver the create-database statement first
\* and the create-table statement after it; when the create-database
\* statement fails, nothing else is handed to the driver and the call
\* returns that statement's error.
C26_DatabaseBeforeTable ==
    \A k \in 1..Len(ddlCalls) :
        LET mine == CallExecs(k) IN
        /\ Len(mine) >= 1 => mine[1].stmt.verb = "CREATE DATABASE"
        /\ Len(mine) >= 2 =>
              /\ mine[2].stmt.verb = "CREATE TABLE"
              /\ mine[1].ok
              /\ Len(mine) = 2
        /\ (Len(mine) >= 1 /\ ~mine[1].ok) =>
              /\ Len(mine) = 1
              /\ ddlCalls[k].kind = "error"
              /\ ddlCalls[k].cause = ddlCalls[k].first + 1
              /\ ddlCalls[k].err = mine[1].err

\* CreateDistributedTable could not reach the server for its
\* create-database statement, after a CreateTable that ran both statements
C26_Witness ==
    /\ Len(ddlCalls) = 2
    /\ ddlCalls[1].op = "CreateTable" /\ Len(CallExecs(1)) = 2
    /\ ddlCalls[2].op = "CreateDistributedTable"
    /\ ddlCalls[2].kind = "error"
    /\ Len(CallExecs(2)) = 1
    /\ ~CallExecs(2)[1].ok
    /\ CallExecs(2)[1].stmt.verb = "CREATE DATABASE"

(***************************************************************************)
(* SimpleEncrypt (src/unnamed/part_003).  A string is the sequence of its  *)
(* bytes, a byte a number in 0..255; an encoded text is the sequence of    *)
(* its characters.                                                         *)
(***************************************************************************)
\* a ^ b on bytes, bit by bit
RECURSIVE XorBits(_, _, _)
XorBits(a, b, bits) ==
    IF bits = 0 THEN 0
    ELSE (((a % 2) + (b % 2)) % 2) + 2 * XorBits(a \div 2, b \div 2, bits - 1)

Xor(a, b) == XorBits(a, b, 8)

\* the inner loop of src lines 126-131, from bs[ix] and tmp[jx]: brk is
\* the break THEFOR
RECURSIVE encodeInner(_, _, _, _)
encodeInner(tmp, bs, ix, jx) ==
    IF jx >= Len(tmp) THEN [brk |-> FALSE, ix |-> ix, bs |-> bs]
    ELSE IF ix >= Len(bs) THEN [brk |-> TRUE, ix |-> ix, bs |-> bs]
    ELSE encodeInner(tmp, [bs EXCEPT ![ix + 1] = Xor(bs[ix + 1], tmp[jx + 1])],
                     ix + 1, jx + 1)

\* the outer loop of src line 125, which has no step of its own: a turn of
\* the inner loop that leaves ix where it was leaves everything as it was,
\* and the loop never ends
RECURSIVE encodeOuter(_, _, _)
encodeOuter(tmp, bs, ix) ==
    IF ix >= Len(bs) THEN Returns(bs)
    ELSE LET turn == encodeInner(tmp, bs, ix, 0)
         IN IF turn.brk THEN Returns(turn.bs)
            ELSE IF turn.ix = ix THEN Spins
            ELSE encodeOuter(tmp, turn.bs, turn.ix)

doEncode(key, bs) == encodeOuter(key, bs, 0)

Base64Chars ==
    <<
      "A", "B", "C", "D", "E", "F", "G", "H", "I", "J", "K", "L", "M", "N", "O", "P",
      "Q", "R", "S", "T", "U", "V", "W", "X", "Y", "Z", "a", "b", "c", "d", "e", "f",
      "g", "h", "i", "j", "k", "l", "m", "n", "o", "p", "q", "r", "s", "t", "u", "v",
      "w", "x", "y", "z", "0", "1", "2", "3", "4", "5", "6", "7", "8", "9", "+", "/" >>

Base64Pad == "="

HexChars ==
    <<
      "0", "1", "2", "3", "4", "5", "6", "7", "8", "9", "a", "b", "c", "d", "e", "f" >>

\* the place of character c in the alphabet, counted from 0
IndexIn(alphabet, c) == (CHOOSE n \in 1..Len(alphabet) : alphabet[n] = c) - 1

\* base64.StdEncoding.EncodeToString from byte n on: three bytes give four
\* characters, a last group of one or two bytes is padded with =
RECURSIVE Base64From(_, _)
Base64From(bs, n) ==
    LET left == Len(bs) - n + 1
        c(v) == Base64Chars[v + 1]
    IN IF left <= 0 THEN <<>>
       ELSE IF left = 1
       THEN <<c(bs[n] \div 4), c((bs[n] % 4) * 16), Base64Pad, Base64Pad>>
       ELSE IF left = 2
       THEN <<c(bs[n] \div 4), c(((bs[n] % 4) * 16) + (bs[n + 1] \div 16)),
              c((bs[n + 1] % 16) * 4), Base64Pad>>
       ELSE <<c(bs[n] \div 4), c(((bs[n] % 4) * 16) + (bs[n + 1] \div 16)),
              c(((bs[n + 1] % 16) * 4) + (bs[n + 2] \div 64)), c(bs[n + 2] % 64)>>
            \o Base64From(bs, n + 3)

Base64Encode(bs) == Base64From(bs, 1)

\* base64.StdEncoding.DecodeString from character n on, for a text made by
\* the encoder
RECURSIVE Base64DecodeFrom(_, _)
Base64DecodeFrom(cs, n) ==
    LET v(k) == IndexIn(Base64Chars, cs[n + k])
    IN IF n + 3 > Len(cs) THEN <<>>
       ELSE IF cs[n + 2] = Base64Pad
       THEN <<(v(0) * 4) + (v(1) \div 16)>>
       ELSE IF cs[n + 3] = Base64Pad
       THEN <<(v(0) * 4) + (v(1) \div 16), ((v(1) % 16) * 16) + (v(2) \div 4)>>
       ELSE <<(v(0) * 4) + (v(1) \div 16), ((v(1) % 16) * 16) + (v(2) \div 4),
              ((v(2) % 4) * 64) + v(3)>>
            \o Base64DecodeFrom(cs, n + 4)

Base64Decode(cs) == Base64DecodeFrom(cs, 1)

\* hex.EncodeToString: two characters a byte
RECURSIVE HexFrom(_, _)
HexFrom(bs, n) ==
    IF n > Len(bs) THEN <<>>
    ELSE <<HexChars[(bs[n] \div 16) + 1], HexChars[(bs[n] % 16) + 1]>>
         \o HexFrom(bs, n + 1)

HexEncode(bs) == HexFrom(bs, 1)

\* hex.DecodeString for a text made by the encoder
HexDecode(cs) ==
    [n \in 1..(Len(cs) \div 2) |->
        (IndexIn(HexChars, cs[(2 * n) - 1]) * 16) + IndexIn(HexChars, cs[2 * n])]

\* src lines 34-39; a doEncode that never returns keeps the call from
\* returning
EncodeString(key, str) ==
    LET r == doEncode(key, str)
    IN IF r.status = "spins" THEN Spins ELSE Returns(Base64Encode(r.out))

\* src lines 63-68
DecodeString(key, text) == doEncode(key, Base64Decode(text))

\* src lines 50-54
Encode2Hex(key, str) ==
    LET r == doEncode(key, str)
    IN IF r.status = "spins" THEN Spins ELSE Returns(HexEncode(r.out))

\* src lines 81-85
Decode4Hex(key, text) == doEncode(key, HexDecode(text))

EncBytes == {0, 97, 255}

ByteStrings == UNION {[1..n -> EncBytes] : n \in 0..MaxLen}

InitEncrypt ==
    /\ IdleExcept("encrypt")
    /\ encKey \in ByteStrings
    /\ encStr \in ByteStrings
    /\ encOut = NoEncOut

\* EncodeString and Encode2Hex of the string, then DecodeString and
\* Decode4Hex of what they returned
EncodeDecode ==
    /\ ~encOut.done
    /\ LET b64 == EncodeString(encKey, encStr)
           hx == Encode2Hex(encKey, encStr)
       IN encOut' = [done |-> TRUE,
                     base64 |-> b64,
                     fromBase64 |-> IF b64.status = "spins" THEN Spins
                                    ELSE DecodeString(encKey, b64.out),
                     hex |-> hx,
                     fromHex |-> IF hx.status = "spins" THEN Spins
                                 ELSE Decode4Hex(encKey, hx.out)]
    /\ UNCHANGED <<encKey, encStr>>
    /\ Frame("encrypt")

NextEncrypt == EncodeDecode

SpecEncrypt == InitEncrypt /\ [][NextEncrypt]_vars

\* C28: for every key, the empty one too, and every string s,
\* EncodeString(s) returns and DecodeString of it is s, and Encode2Hex(s)
\* returns and Decode4Hex of it is s.
C28_EncodeDecodeRoundTrip ==
    encOut.done =>
        /\ encOut.base64.status = "returns"
        /\ encOut.fromBase64 = Returns(encStr)
        /\ encOut.hex.status = "returns"
        /\ encOut.fromHex = Returns(encStr)

(***************************************************************************)
(* Name resolution on fields whose tags carry options only, as in          *)
(* `json:",omitempty"`: the schema functions of SpecSchema on such types.  *)
(***************************************************************************)
OptionsOnly == <<",", "o">>

TaggedFields ==
    {MkField(<<"A", "b">>, db, json, "int") :
        db \in {EmptyStr, OptionsOnly, <<"d">>, Dash},
        json \in {EmptyStr, OptionsOnly, <<"j">>}}

TaggedTypes == UNION {[1..n -> TaggedFields] : n \in 1..MaxTagged}

InitTagged ==
    /\ IdleExcept("schema")
    /\ sType \in TaggedTypes
    /\ sOp = "none"
    /\ sRes = <<>>

SpecTagged == InitTagged /\ [][NextSchema]_vars

\* C29: the column name resolved for a field that is not excluded is not
\* the empty string, whatever its tags, and the column list
\* analyzeStructure returns, which prepareBatch puts in the INSERT
\* statement, holds no empty name.
C29_ColumnNamesNonEmpty ==
    /\ sOp = "resolve" =>
          \A n \in 1..Len(sType) :
              (IsExported(sType[n]) /\ sRes[n] # Dash) => sRes[n] # EmptyStr
    /\ sOp = "extract" =>
          \A n \in 1..Len(sRes.analyzed.columns) :
              sRes.analyzed.columns[n] # EmptyStr

====
